---- MODULE Spec2Model ----
(***************************************************************************)
(* Alpine ski race scoring (central-lakes-cup): the Scoring object of      *)
(* js/scoring.js as operators over racer records, and the calls made on    *)
(* it as actions.                                                          *)
(*                                                                         *)
(* Encoding of JavaScript values:                                          *)
(*   - a string is a sequence of one-character strings, so that            *)
(*     toUpperCase, toLowerCase, trim and includes are computed;           *)
(*   - null / undefined strings are NullStr;                               *)
(*   - null numbers are Null, properties never assigned are Undef;         *)
(*   - a nullable object is a sequence of length 0 (null) or 1.            *)
(***************************************************************************)
EXTENDS Integers, Sequences, FiniteSets, TLC

VARIABLES
    racers,   \* the shared racer objects of a race (race.racers)
    ret,      \* what the last scoring call on racers returned
    events,   \* the season's events, each a list of race files
    season,   \* what the last calculateSeasonStandings call returned
    arg,      \* the arguments of a pure function under test
    res       \* its result

vars == <<racers, ret, events, season, arg, res>>

\* ------------------------------------------------------------------ values

Null == -1
Undef == -2
NullStr == <<"null">>

\* JavaScript truthiness of a string value: null, undefined and "" are falsy
Truthy(s) == s # NullStr /\ s # <<>>

\* x || 0 for a number-valued property
OrZero(x) == IF x = Null \/ x = Undef THEN 0 ELSE x

\* An array: the sequence s with every element evaluated once
Array(s) == SubSeq(s, 1, Len(s))

RECURSIVE SumSeq(_)
SumSeq(s) == IF s = <<>> THEN 0 ELSE s[1] + SumSeq(Tail(s))

Range(s) == {s[i] : i \in DOMAIN s}

\* ----------------------------------------------------------------- strings

LowerLetters == <<"a","b","c","d","e","f","g","h","i","j","k","l","m",
                  "n","o","p","q","r","s","t","u","v","w","x","y","z">>
UpperLetters == <<"A","B","C","D","E","F","G","H","I","J","K","L","M",
                  "N","O","P","Q","R","S","T","U","V","W","X","Y","Z">>

WhiteSpace == {" ", "\t"}

UpperChar(c) ==
    IF \E i \in DOMAIN LowerLetters : LowerLetters[i] = c
    THEN UpperLetters[CHOOSE i \in DOMAIN LowerLetters : LowerLetters[i] = c]
    ELSE c

LowerChar(c) ==
    IF \E i \in DOMAIN UpperLetters : UpperLetters[i] = c
    THEN LowerLetters[CHOOSE i \in DOMAIN UpperLetters : UpperLetters[i] = c]
    ELSE c

toUpperCase(s) == Array([i \in DOMAIN s |-> UpperChar(s[i])])

toLowerCase(s) == Array([i \in DOMAIN s |-> LowerChar(s[i])])

\* String.prototype.trim: drop the leading and the trailing white space
trim(s) ==
    LET keep == {i \in DOMAIN s : s[i] \notin WhiteSpace}
    IN  IF keep = {} THEN <<>>
        ELSE LET lo == CHOOSE i \in keep : \A j \in keep : i <= j
                 hi == CHOOSE i \in keep : \A j \in keep : i >= j
             IN  SubSeq(s, lo, hi)

\* String.prototype.includes: t occurs in s as a contiguous substring
includes(s, t) ==
    \E k \in 0..(Len(s) - Len(t)) : \A i \in 1..Len(t) : s[k + i] = t[i]

\* --------------------------------------------------------- points and class

\* getPointsForPlace without the test place > fieldSize (a variant the points
\* formula is compared with)
getPointsForPlaceNoUpper(place, fieldSize) ==
    IF place <= 0 THEN 0 ELSE fieldSize - place + 1

\* getPointsForPlace counting from 0: the last of the field gets no point
\* (a variant)
getPointsForPlaceFromZero(place, fieldSize) ==
    IF place <= 0 \/ place > fieldSize THEN 0 ELSE fieldSize - place

getPointsForPlace(place, fieldSize) ==
    IF place <= 0 \/ place > fieldSize THEN 0 ELSE fieldSize - place + 1

S_V == <<"V">>
S_VM == <<"V","M">>
S_VF == <<"V","F">>
S_VARSITY == <<"V","A","R","S","I","T","Y">>
S_Varsity == <<"V","a","r","s","i","t","y">>
S_JV == <<"J","V">>
S_JVM == <<"J","V","M">>
S_JVF == <<"J","V","F">>

\* matchesClass without the trim of the racer's class (a variant)
matchesClassNoTrim(racerClass, filterClass) ==
    IF ~Truthy(racerClass) THEN FALSE
    ELSE LET normalized == toUpperCase(racerClass)
             filter == trim(toUpperCase(filterClass))
         IN  IF filter = S_VARSITY
             THEN normalized \in {S_V, S_VM, S_VF, S_VARSITY}
             ELSE IF filter = S_JV
             THEN normalized \in {S_JV, S_JVM, S_JVF}
             ELSE normalized = filter

matchesClass(racerClass, filterClass) ==
    IF ~Truthy(racerClass) THEN FALSE
    ELSE LET normalized == trim(toUpperCase(racerClass))
             filter == trim(toUpperCase(filterClass))
         IN  IF filter = S_VARSITY
             THEN normalized \in {S_V, S_VM, S_VF, S_VARSITY}
             ELSE IF filter = S_JV
             THEN normalized \in {S_JV, S_JVM, S_JVF}
             ELSE normalized = filter

getClassCategory(racerClass) ==
    IF ~Truthy(racerClass) THEN NullStr
    ELSE LET normalized == trim(toUpperCase(racerClass))
         IN  IF normalized \in {S_V, S_VM, S_VF, S_VARSITY} THEN S_Varsity
             ELSE IF normalized \in {S_JV, S_JVM, S_JVF} THEN S_JV
             ELSE NullStr

\* matchesClass tabulated over the class codes of the racers of this model
\* and the class arguments of the calls
RacerClasses == {NullStr, <<>>, S_V, S_VM, S_VF, S_JV, S_JVM, S_JVF, <<"j","v">>}

ClassArgs == {NullStr, S_Varsity, S_JV}

ClassTable ==
    [c \in RacerClasses |-> [f \in ClassArgs \ {NullStr} |-> matchesClass(c, f)]]

inClass(r, raceClass) == ClassTable[r.class][raceClass]

\* ------------------------------------------------------------- sorting

\* Array.prototype.sort with a consistent comparator: the stable sort. The
\* element at position i of s goes behind every element that compares below
\* it and behind the equal elements that stood before it.
StableSort(s, Cmp(_, _)) ==
    LET pos == Array([i \in DOMAIN s |->
                   1 + Cardinality({j \in DOMAIN s : Cmp(s[j], s[i]) < 0})
                     + Cardinality({j \in DOMAIN s : j < i /\ Cmp(s[j], s[i]) = 0})])
    IN  Array([p \in DOMAIN s |-> s[CHOOSE i \in DOMAIN s : pos[i] = p]])

\* Array.prototype.filter over the indices of the array rs, in array order
FilterIdx(rs, Test(_)) ==
    LET idx == Array([i \in DOMAIN rs |-> i])
        T(i) == Test(rs[i])
    IN  SelectSeq(idx, T)

\* The strings over the alphabet of length up to n
RECURSIVE StringsUpTo(_, _)
StringsUpTo(alphabet, n) ==
    IF n = 0 THEN {<<>>}
    ELSE LET shorter == StringsUpTo(alphabet, n - 1)
         IN  shorter \cup {Append(s, c) : s \in shorter, c \in alphabet}

\* -------------------------------------------------------- the allow-list

SCORING_TEAMS ==
    << <<"S","t"," ","C","l","o","u","d"," ","B","r","e","a","k","a","w","a","y","s">>,
       <<"L","a","k","e","s"," ","A","r","e","a">>,
       <<"B","r","a","i","n","e","r","d">>,
       <<"A","n","n","a","n","d","a","l","e">>,
       <<"D","e","t","r","o","i","t"," ","L","a","k","e","s">> >>

isScoringTeam(team) ==
    IF ~Truthy(team) THEN FALSE
    ELSE LET normalizedTeam == trim(toLowerCase(team))
         IN  \E k \in DOMAIN SCORING_TEAMS :
                \/ includes(normalizedTeam, toLowerCase(SCORING_TEAMS[k]))
                \/ includes(toLowerCase(SCORING_TEAMS[k]), normalizedTeam)

T_Brainerd == <<"B","r","a","i","n","e","r","d">>
T_Annandale == <<"A","n","n","a","n","d","a","l","e">>
T_annandale == <<"a","n","n","a","n","d","a","l","e"," ">>
T_Edina == <<"E","d","i","n","a">>
\* a team entered by its number
T_Seven == <<"7">>

\* the longest of the short team strings
MaxTeamLen == 3

\* The team strings isScoringTeam is applied to: no team, the short strings
\* of blanks and of letters in and out of the allow-listed names, and longer
\* names in other spellings
TeamInputs ==
    StringsUpTo({" ", "a", "A", "x"}, MaxTeamLen) \cup
    { NullStr, T_Brainerd, T_annandale, T_Edina,
      <<"b","r","a","i","n","e","r","d"," ","H","S">>,
      <<" ","L","A","K","E","S"," ">>,
      <<"D","e","t","r","o","i","t">>,
      <<"S","t",".","C","l","o","u","d">> }

\* The team strings of the racers of this model, and isScoringTeam tabulated
\* over them (the scoring operators look the answer up instead of matching
\* substrings again for every racer)
TeamStrings ==
    {NullStr, <<>>, T_Brainerd, T_Annandale, T_annandale, T_Edina, T_Seven}
        \cup TeamInputs

ScoringTeamTable == [t \in TeamStrings |-> isScoringTeam(t)]

onScoringTeam(r) == ScoringTeamTable[r.team]

\* ------------------------------------------------------------ run ranks

\* Dense ranking: a tie keeps the rank, the next value takes rank + 1 (a
\* variant of TieRank)
RECURSIVE TieRankDense(_, _)
TieRankDense(sortedVals, i) ==
    IF i > 1 /\ sortedVals[i] = sortedVals[i - 1]
    THEN TieRankDense(sortedVals, i - 1)
    ELSE IF i = 1 THEN 1 ELSE TieRankDense(sortedVals, i - 1) + 1

\* The rank the forEach loops give the element at position i of the sorted
\* values: the predecessor's rank on a tie, else currentPlace = i
RECURSIVE TieRank(_, _)
TieRank(sortedVals, i) ==
    IF i > 1 /\ sortedVals[i] = sortedVals[i - 1]
    THEN TieRank(sortedVals, i - 1)
    ELSE i

\* The position of racer index x in the sequence of indices s (0: not in it)
PosIn(s, x) == IF \E p \in DOMAIN s : s[p] = x
               THEN CHOOSE p \in DOMAIN s : s[p] = x ELSE 0

\* The run rankings without the racers flagged DNF or DSQ (a variant)
calculateRunRankingsUnflagged(rs, gender) ==
    LET run1Racers ==
            StableSort(FilterIdx(rs, LAMBDA r : r.gender = gender /\ r.run1 # Null
                                         /\ ~r.dnf /\ ~r.dsq),
                       LAMBDA a, b : rs[a].run1 - rs[b].run1)
        run2Racers ==
            StableSort(FilterIdx(rs, LAMBDA r : r.gender = gender /\ r.run2 # Null
                                         /\ ~r.dnf /\ ~r.dsq),
                       LAMBDA a, b : rs[a].run2 - rs[b].run2)
        v1 == Array([p \in DOMAIN run1Racers |-> rs[run1Racers[p]].run1])
        v2 == Array([p \in DOMAIN run2Racers |-> rs[run2Racers[p]].run2])
    IN  [racers |->
            Array([i \in DOMAIN rs |->
                [rs[i] EXCEPT
                   !.run1Rank = IF PosIn(run1Racers, i) > 0
                                THEN TieRank(v1, PosIn(run1Racers, i)) ELSE @,
                   !.run2Rank = IF PosIn(run2Racers, i) > 0
                                THEN TieRank(v2, PosIn(run2Racers, i)) ELSE @]]),
         run1Count |-> Len(run1Racers),
         run2Count |-> Len(run2Racers)]

\* The run ranks of the racers of the gender, and the numbers ranked
calculateRunRankings(rs, gender) ==
    LET run1Racers ==
            StableSort(FilterIdx(rs, LAMBDA r : r.gender = gender /\ r.run1 # Null),
                       LAMBDA a, b : rs[a].run1 - rs[b].run1)
        run2Racers ==
            StableSort(FilterIdx(rs, LAMBDA r : r.gender = gender /\ r.run2 # Null),
                       LAMBDA a, b : rs[a].run2 - rs[b].run2)
        v1 == Array([p \in DOMAIN run1Racers |-> rs[run1Racers[p]].run1])
        v2 == Array([p \in DOMAIN run2Racers |-> rs[run2Racers[p]].run2])
    IN  [racers |->
            Array([i \in DOMAIN rs |->
                [rs[i] EXCEPT
                   !.run1Rank = IF PosIn(run1Racers, i) > 0
                                THEN TieRank(v1, PosIn(run1Racers, i)) ELSE @,
                   !.run2Rank = IF PosIn(run2Racers, i) > 0
                                THEN TieRank(v2, PosIn(run2Racers, i)) ELSE @]]),
         run1Count |-> Len(run1Racers),
         run2Count |-> Len(run2Racers)]

\* --------------------------------------------------- individual results

\* The finishers filter with the totalTime test alone, the status flags
\* ignored (a variant)
isFinisherTimeOnly(r) == r.totalTime # Null

\* The finishers filter with a further test that the racer has no place yet
\* (a variant that makes a second call differ from the first)
isFinisherUnplaced(r) ==
    r.totalTime # Null /\ ~r.dnf /\ ~r.dsq /\ r.place \in {Undef, Null}

isFinisher(r) == r.totalTime # Null /\ ~r.dnf /\ ~r.dsq

\* The racers of the gender from scoring teams, and their number: the field
\* size of individual scoring
scoringTeamRacersOf(rs, gender) ==
    FilterIdx(rs, LAMBDA r : r.gender = gender /\ onScoringTeam(r))

\* The field size counted over all racers of the gender, allow-listed or not
\* (a variant)
genderFieldSizeAllStarters(rs, gender) ==
    Len(FilterIdx(rs, LAMBDA r : r.gender = gender))

genderFieldSizeOf(rs, gender) == Len(scoringTeamRacersOf(rs, gender))

\* The points the loop of calculateIndividualResults / calculateTeamStandings
\* gives the finisher at position i: copied from the predecessor on a tie
RECURSIVE TiePoints(_, _, _)
TiePoints(sortedVals, i, fieldSize) ==
    IF i > 1 /\ sortedVals[i] = sortedVals[i - 1]
    THEN TiePoints(sortedVals, i - 1, fieldSize)
    ELSE getPointsForPlace(i, fieldSize)

\* results.sort comparator putting the racers without a place first (a
\* variant)
ComparePlaceNullFirst(a, b) ==
    IF a.place = Null /\ b.place = Null THEN 0
    ELSE IF a.place = Null THEN 0 - 1
    ELSE IF b.place = Null THEN 1
    ELSE a.place - b.place

\* results.sort comparator: by place, racers without a place last
ComparePlace(a, b) ==
    IF a.place = Null /\ b.place = Null THEN 0
    ELSE IF a.place = Null THEN 1
    ELSE IF b.place = Null THEN 0 - 1
    ELSE a.place - b.place

\* "Sort by place", then "Filter by class if requested": the racers as the
\* call leaves them, and the returned array (indices into the racers)
individualDisplay(raceClass, rs2, combined) ==
    LET sorted == StableSort(combined, LAMBDA a, b : ComparePlace(rs2[a], rs2[b]))
    IN  [racers |-> rs2,
         results |-> IF Truthy(raceClass)
                     THEN SelectSeq(sorted, LAMBDA i : inClass(rs2[i], raceClass))
                     ELSE sorted]

\* The three forEach loops: place and points for the scoring finishers, null
\* and 0 for the scoring non-finishers and for the racers of other teams;
\* then the three arrays are combined
individualPoints(raceClass, genderFieldSize, runCounts, scoringFinishers, scoringNonFinishers, nonScoringRacers) ==
    LET rs1 == runCounts.racers
        times == Array([p \in DOMAIN scoringFinishers |->
                            rs1[scoringFinishers[p]].totalTime])
    IN  individualDisplay(raceClass,
            Array([i \in DOMAIN rs1 |->
                 IF PosIn(scoringFinishers, i) > 0
                 THEN [rs1[i] EXCEPT
                         !.place = TieRank(times, PosIn(scoringFinishers, i)),
                         !.points = TiePoints(times, PosIn(scoringFinishers, i),
                                              genderFieldSize),
                         !.fieldSize = genderFieldSize,
                         !.run1Count = runCounts.run1Count,
                         !.run2Count = runCounts.run2Count]
                 ELSE IF PosIn(scoringNonFinishers, i) > 0
                         \/ PosIn(nonScoringRacers, i) > 0
                 THEN [rs1[i] EXCEPT
                         !.place = Null,
                         !.points = 0,
                         !.fieldSize = genderFieldSize,
                         !.run1Count = runCounts.run1Count,
                         !.run2Count = runCounts.run2Count]
                 ELSE rs1[i]]),
            scoringFinishers \o scoringNonFinishers \o nonScoringRacers)

\* The scoring finishers sorted by time, the scoring non-finishers, and the
\* racers of the gender from other teams
individualGroups(rs, raceClass, genderFieldSize, runCounts, scoringTeamRacers, genderRacers) ==
    individualPoints(raceClass, genderFieldSize, runCounts,
        StableSort(SelectSeq(scoringTeamRacers, LAMBDA i : isFinisher(rs[i])),
                   LAMBDA a, b : rs[a].totalTime - rs[b].totalTime),
        SelectSeq(scoringTeamRacers, LAMBDA i : ~isFinisher(rs[i])),
        SelectSeq(genderRacers, LAMBDA i : ~onScoringTeam(rs[i])))

\* calculateIndividualResults with the field size counted over the starters
\* of the requested class only, as calculateTeamStandings counts it (a
\* variant)
calculateIndividualResultsClassField(rs, gender, raceClass) ==
    individualGroups(rs, raceClass,
        Len(FilterIdx(rs, LAMBDA r : r.gender = gender /\ onScoringTeam(r)
                                       /\ (Truthy(raceClass) => inClass(r, raceClass)))),
        calculateRunRankings(rs, gender),
        scoringTeamRacersOf(rs, gender),
        FilterIdx(rs, LAMBDA r : r.gender = gender))

\* calculateIndividualResults with the racers of other teams taken from all
\* racers, not from those of the gender (a variant)
calculateIndividualResultsAllOthers(rs, gender, raceClass) ==
    individualGroups(rs, raceClass,
        genderFieldSizeOf(rs, gender),
        calculateRunRankings(rs, gender),
        scoringTeamRacersOf(rs, gender),
        FilterIdx(rs, LAMBDA r : TRUE))

calculateIndividualResults(rs, gender, raceClass) ==
    individualGroups(rs, raceClass,
        genderFieldSizeOf(rs, gender),
        calculateRunRankings(rs, gender),
        scoringTeamRacersOf(rs, gender),
        FilterIdx(rs, LAMBDA r : r.gender = gender))

\* -------------------------------------------------- objects used as maps

Digits == <<"0","1","2","3","4","5","6","7","8","9">>

IsDigit(c) == \E d \in DOMAIN Digits : Digits[d] = c

DigitVal(c) == (CHOOSE d \in DOMAIN Digits : Digits[d] = c) - 1

RECURSIVE NumVal(_)
NumVal(s) == IF s = <<>> THEN 0
             ELSE 10 * NumVal(SubSeq(s, 1, Len(s) - 1)) + DigitVal(s[Len(s)])

\* A property key that is an array index (a canonical decimal numeral); keys
\* of up to 9 digits are all below 2^32 - 1
IsArrayIndex(key) ==
    /\ Len(key) >= 1 /\ Len(key) <= 9
    /\ \A i \in DOMAIN key : IsDigit(key[i])
    /\ (Len(key) > 1 => key[1] # "0")

\* The keys of the sequence ks (in order of appearance), without repetition
Distinct(ks) ==
    LET first == SelectSeq(Array([i \in DOMAIN ks |-> i]),
                           LAMBDA i : \A j \in 1..(i - 1) : ks[j] # ks[i])
    IN  Array([k \in DOMAIN first |-> ks[first[k]]])

\* Object.values / Object.keys order of an object whose string keys were
\* inserted in the order ks: array-index keys first, ascending, then the
\* other keys in insertion order
ObjectKeys(ks) ==
    LET d == Distinct(ks)
        ints == StableSort(SelectSeq(d, IsArrayIndex),
                           LAMBDA a, b : NumVal(a) - NumVal(b))
        strs == SelectSeq(d, LAMBDA k : ~IsArrayIndex(k))
    IN  ints \o strs

\* -------------------------------------------------------- team standings

DefaultTopN == 4

\* slice(0, n)
Slice0(s, n) == SubSeq(s, 1, IF n < Len(s) THEN n ELSE Len(s))

\* The scoring roster without slice(0, topN) (a variant)
scoringRacersNoCap(sortedMembers, rs, topN) ==
    SelectSeq(sortedMembers, LAMBDA i : rs[i].teamPoints > 0)

scoringRacersOf(sortedMembers, rs, topN) ==
    Slice0(SelectSeq(sortedMembers, LAMBDA i : rs[i].teamPoints > 0), topN)

\* team.scoringRacers.forEach(r => r.isScoring = true): the racers outside
\* the roster are not written
markScoring(rs, scoring) ==
    Array([i \in DOMAIN rs |->
        IF i \in scoring THEN [rs[i] EXCEPT !.isScoring = TRUE] ELSE rs[i]])

\* One entry of teams after "Calculate team scores": the members sorted by
\* teamPoints descending, the scoring roster and its total
scoredTeam(rs1, topN, name, sortedMembers) ==
    LET roster == scoringRacersOf(sortedMembers, rs1, topN)
    IN  [name |-> name,
         racers |-> sortedMembers,
         scoringRacers |-> roster,
         totalPoints |->
            SumSeq(Array([p \in DOMAIN roster |-> rs1[roster[p]].teamPoints]))]

\* "Sort and rank teams": the racers with the rosters marked, and the
\* standings with place = index + 1
rankedTeams(rs1, teams) ==
    LET order == StableSort(Array([k \in DOMAIN teams |-> k]),
                            LAMBDA a, b : teams[b].totalPoints - teams[a].totalPoints)
    IN  [racers |->
            markScoring(rs1, UNION {Range(teams[k].scoringRacers) : k \in DOMAIN teams}),
         standings |->
            Array([p \in DOMAIN order |-> [place |-> p] @@ teams[order[p]]])]

\* Object.values(teams): one entry per team name, in property order
teamsOf(rs1, topN, grouped, names) ==
    rankedTeams(rs1,
        Array([k \in DOMAIN names |->
            scoredTeam(rs1, topN, names[k],
                StableSort(SelectSeq(grouped, LAMBDA i : rs1[i].team = names[k]),
                           LAMBDA a, b : OrZero(rs1[b].teamPoints)
                                           - OrZero(rs1[a].teamPoints)))]))

\* "Group by team": the finishers, then the non-finishers, those without a
\* team left out
groupByTeam(rs1, topN, grouped) ==
    teamsOf(rs1, topN, grouped,
            ObjectKeys(Array([p \in DOMAIN grouped |-> rs1[grouped[p]].team])))

\* The two forEach loops: teamPlace and teamPoints for the finishers, null
\* and 0 for the non-finishers
teamPlacing(rs, topN, classFieldSize, finishers, nonFinishers) ==
    LET times == Array([p \in DOMAIN finishers |-> rs[finishers[p]].totalTime])
    IN  groupByTeam(
            Array([i \in DOMAIN rs |->
                 IF PosIn(finishers, i) > 0
                 THEN [rs[i] EXCEPT
                         !.teamPlace = TieRank(times, PosIn(finishers, i)),
                         !.teamPoints = TiePoints(times, PosIn(finishers, i),
                                                  classFieldSize),
                         !.teamFieldSize = classFieldSize]
                 ELSE IF PosIn(nonFinishers, i) > 0
                 THEN [rs[i] EXCEPT
                         !.teamPlace = Null,
                         !.teamPoints = 0,
                         !.teamFieldSize = classFieldSize]
                 ELSE rs[i]]),
            topN,
            SelectSeq(finishers \o nonFinishers, LAMBDA i : Truthy(rs[i].team)))

\* The finishers of the filtered racers sorted by time, and the non-finishers
teamGroups(rs, topN, filtered) ==
    teamPlacing(rs, topN, Len(filtered),
        StableSort(SelectSeq(filtered, LAMBDA i : isFinisher(rs[i])),
                   LAMBDA a, b : rs[a].totalTime - rs[b].totalTime),
        SelectSeq(filtered, LAMBDA i : ~isFinisher(rs[i])))

\* calculateTeamStandings over the racers of allow-listed teams only, as
\* calculateIndividualResults scores them (a variant)
calculateTeamStandingsAllowList(rs, gender, raceClass, topN) ==
    teamGroups(rs, topN,
        FilterIdx(rs, LAMBDA r : r.gender = gender /\ inClass(r, raceClass)
                                   /\ onScoringTeam(r)))

\* calculateTeamStandings over all racers of the gender, whatever their
\* class (a variant)
calculateTeamStandingsAnyClass(rs, gender, raceClass, topN) ==
    teamGroups(rs, topN, FilterIdx(rs, LAMBDA r : r.gender = gender))

calculateTeamStandings(rs, gender, raceClass, topN) ==
    teamGroups(rs, topN,
        FilterIdx(rs, LAMBDA r : r.gender = gender /\ inClass(r, raceClass)))

\* ------------------------------------------------------ season standings

\* `${x}` of a string-valued property
Text(x) == IF x = NullStr THEN <<"n","u","l","l">> ELSE x

\* `${racer.firstName.trim()}_${racer.lastName.trim()}_${racer.team}`
individualKey(r) ==
    trim(r.firstName) \o <<"_">> \o trim(r.lastName) \o <<"_">> \o Text(r.team)

\* Combine racers from all race files of the event: copies, none left out
allRacersOf(event) ==
    LET RECURSIVE Cat(_)
        Cat(k) == IF k = 0 THEN <<>> ELSE Cat(k - 1) \o event.races[k].racers
    IN  Cat(Len(event.races))

\* What one round of events.forEach has at hand: the copies as both calls
\* left them, the individual results and the team standings
eventScores(ind, team) ==
    [racers |-> team.racers, individualResults |-> ind.results,
     teamStandings |-> team.standings]

\* "Calculate team standings for this event", on the copies the individual
\* scoring has written
eventTeams(ind, gender, effectiveClass) ==
    eventScores(ind,
        calculateTeamStandings(ind.racers, gender, effectiveClass, DefaultTopN))

\* What events.forEach computes for one event: the individual results of the
\* combined copies, then the team standings of the same copies
scoreEvent(event, gender, raceClass) ==
    eventTeams(calculateIndividualResults(allRacersOf(event), gender, raceClass),
               gender,
               IF Truthy(raceClass) THEN raceClass ELSE S_Varsity)

\* The rows of the individuals without "Skip non-scorers" (a variant)
individualRowsKeepZero(event, scored) ==
    LET scorers == scored.individualResults
    IN  Array([p \in DOMAIN scorers |->
            [key |-> individualKey(scored.racers[scorers[p]]),
             racer |-> scored.racers[scorers[p]],
             eventName |-> event.name, eventDate |-> event.date,
             points |-> scored.racers[scorers[p]].points,
             place |-> scored.racers[scorers[p]].place,
             fieldSize |-> scored.racers[scorers[p]].fieldSize]])

\* The rows pushed to the eventResults of the individuals for one scored
\* event, in push order: the racers with points
individualRows(event, scored) ==
    LET scorers == SelectSeq(scored.individualResults,
                             LAMBDA i : scored.racers[i].points # 0)
    IN  Array([p \in DOMAIN scorers |->
            [key |-> individualKey(scored.racers[scorers[p]]),
             racer |-> scored.racers[scorers[p]],
             eventName |-> event.name, eventDate |-> event.date,
             points |-> scored.racers[scorers[p]].points,
             place |-> scored.racers[scorers[p]].place,
             fieldSize |-> scored.racers[scorers[p]].fieldSize]])

\* The rows pushed to the eventResults of the teams: every team of the
\* event's standings, whatever its total
teamRows(event, scored) ==
    Array([p \in DOMAIN scored.teamStandings |->
        [key |-> scored.teamStandings[p].name,
         eventName |-> event.name, eventDate |-> event.date,
         points |-> scored.teamStandings[p].totalPoints,
         place |-> scored.teamStandings[p].place]])

\* The concatenation of the sequences of the sequence ss
RECURSIVE Flatten(_)
Flatten(ss) == IF ss = <<>> THEN <<>>
               ELSE Flatten(SubSeq(ss, 1, Len(ss) - 1)) \o ss[Len(ss)]

\* The drop condition without the test of the result count (a variant)
shouldDropAlways(resultCount, totalEvents) == totalEvents > 1

shouldDrop(resultCount, totalEvents) ==
    resultCount >= totalEvents /\ totalEvents > 1

\* "Calculate totals with drop" for one entry of teamTotals or
\* individualTotals: its results sorted by points, the last one dropped when
\* shouldDrop; the properties are added to the entry
dropWorst(entry, totalEvents, sorted) ==
    LET drop == shouldDrop(Len(sorted), totalEvents)
        counted == IF drop THEN SubSeq(sorted, 1, Len(sorted) - 1) ELSE sorted
    IN  [totalPoints |-> SumSeq(Array([p \in DOMAIN counted |-> counted[p].points])),
         countedResults |-> counted,
         droppedResult |-> IF drop THEN <<sorted[Len(sorted)]>> ELSE <<>>,
         eventCount |-> Len(sorted),
         totalEventsInSeason |-> totalEvents] @@ entry

\* The entry with its totals: its results sorted by points descending first
withTotals(entry, totalEvents) ==
    dropWorst(entry, totalEvents,
              StableSort(entry.eventResults, LAMBDA a, b : b.points - a.points))

\* Object.values(totals) sorted by totalPoints, place = index + 1
rankEntries(entries) ==
    LET order == StableSort(entries, LAMBDA a, b : b.totalPoints - a.totalPoints)
    IN  Array([p \in DOMAIN order |-> [place |-> p] @@ order[p]])

\* The rows of the key, in push order
rowsOfKey(rows, key) == SelectSeq(rows, LAMBDA row : row.key = key)

\* Object.values(teamTotals) after events.forEach: one entry per team name
teamTotalsOf(rows) ==
    LET keys == ObjectKeys(Array([p \in DOMAIN rows |-> rows[p].key]))
    IN  Array([k \in DOMAIN keys |->
            LET mine == rowsOfKey(rows, keys[k])
            IN  [name |-> keys[k],
                 eventResults |->
                    Array([p \in DOMAIN mine |->
                        [eventName |-> mine[p].eventName,
                         eventDate |-> mine[p].eventDate,
                         points |-> mine[p].points,
                         place |-> mine[p].place]])]])

\* Object.values(individualTotals) after events.forEach: one entry per key,
\* created from the first racer that had the key
individualTotalsOf(rows) ==
    LET keys == ObjectKeys(Array([p \in DOMAIN rows |-> rows[p].key]))
    IN  Array([k \in DOMAIN keys |->
            LET mine == rowsOfKey(rows, keys[k])
            IN  [firstName |-> trim(mine[1].racer.firstName),
                 lastName |-> trim(mine[1].racer.lastName),
                 team |-> mine[1].racer.team,
                 gender |-> mine[1].racer.gender,
                 class |-> mine[1].racer.class,
                 eventResults |->
                    Array([p \in DOMAIN mine |->
                        [eventName |-> mine[p].eventName,
                         eventDate |-> mine[p].eventDate,
                         points |-> mine[p].points,
                         place |-> mine[p].place,
                         fieldSize |-> mine[p].fieldSize]])]])

\* "Calculate totals with drop", "Sort and rank" and the returned object
seasonRanking(totalEvents, teamTotals, individualTotals) ==
    [teams |->
        rankEntries(Array([k \in DOMAIN teamTotals |->
                              withTotals(teamTotals[k], totalEvents)])),
     individuals |->
        rankEntries(Array([k \in DOMAIN individualTotals |->
                              withTotals(individualTotals[k], totalEvents)])),
     eventCount |-> totalEvents,
     countedEvents |-> IF totalEvents > 1 THEN totalEvents - 1 ELSE totalEvents]

\* teamTotals and individualTotals after events.forEach
seasonTotals(evs, scored) ==
    seasonRanking(Len(evs),
        teamTotalsOf(Flatten(Array([e \in DOMAIN evs |->
                                       teamRows(evs[e], scored[e])]))),
        individualTotalsOf(Flatten(Array([e \in DOMAIN evs |->
                                       individualRows(evs[e], scored[e])]))))

calculateSeasonStandings(evs, gender, raceClass) ==
    seasonTotals(evs,
        Array([e \in DOMAIN evs |-> scoreEvent(evs[e], gender, raceClass)]))

\* ------------------------------------------------- bounds of the inputs

\* the largest field size getPointsForPlace is called with on its own
MaxFieldSize == 30
\* the longest class code matchesClass is called with on its own
MaxCodeLen == 2
\* the longest race drawn from RacerPool (the worked examples are longer)
MaxRacers == 2
\* the longest season drawn from RaceFilesPool
MaxEvents == 2

\* The values of the variables a specification does not use
NoRet == [op |-> "none"]
NoArg == [fn |-> "none"]

\* ------------------------------------------------------- a race's racers

\* A racer as parseCompetitors builds it: identity and timing, none of the
\* fields scoring attaches (isScoring FALSE: the property is absent)
Racer(firstName, lastName, team, gender, class, run1, run2, totalTime, dnf, dsq) ==
    [firstName |-> firstName, lastName |-> lastName, team |-> team,
     gender |-> gender, class |-> class,
     run1 |-> run1, run2 |-> run2, totalTime |-> totalTime,
     dnf |-> dnf, dsq |-> dsq,
     place |-> Undef, points |-> Undef, fieldSize |-> Undef,
     run1Rank |-> Undef, run2Rank |-> Undef,
     run1Count |-> Undef, run2Count |-> Undef,
     teamPlace |-> Undef, teamPoints |-> Undef, teamFieldSize |-> Undef,
     isScoring |-> FALSE]

\* The racer without what scoring attached: a fresh copy of the parsed input
Fresh(r) ==
    Racer(r.firstName, r.lastName, r.team, r.gender, r.class,
          r.run1, r.run2, r.totalTime, r.dnf, r.dsq)

FreshAll(rs) == Array([i \in DOMAIN rs |-> Fresh(rs[i])])

\* The racers the race lists are drawn from: allow-listed teams (one in a
\* spelling variant), a team off the list, no team; finishers with tied and
\* distinct times, a racer without a time, racers flagged DNF / DSQ whose
\* totalTime holds a number; both genders and both classes
RacerPool ==
    { Racer(<<"A">>, <<"a">>, T_Brainerd,  "M", S_V,  30, 31, 61, FALSE, FALSE),
      Racer(<<"B">>, <<"b">>, T_Brainerd,  "M", S_VM, 32, 30, 62, FALSE, FALSE),
      Racer(<<"C">>, <<"c">>, T_annandale, "M", S_JV, 31, 30, 61, FALSE, FALSE),
      Racer(<<"D">>, <<"d">>, T_Edina,     "M", S_V,  30, 30, 60, FALSE, FALSE),
      Racer(<<"E">>, <<"e">>, T_Brainerd,  "M", S_V,  29, 30, 59, TRUE,  FALSE),
      Racer(<<"F">>, <<"f">>, T_Annandale, "F", S_VF, 30, 31, 61, FALSE, FALSE),
      Racer(<<"G">>, <<"g">>, <<>>,        "M", S_V,  31, 31, 62, FALSE, FALSE),
      Racer(<<"H">>, <<"h">>, T_Brainerd,  "M", <<"j","v">>, Null, Null, Null, FALSE, FALSE),
      Racer(<<"I">>, <<"i">>, T_Annandale, "M", S_V,  30, 33, 63, FALSE, TRUE) }

RECURSIVE SeqsUpTo(_, _)
SeqsUpTo(S, n) ==
    IF n = 0 THEN {<<>>}
    ELSE LET shorter == SeqsUpTo(S, n - 1)
         IN  shorter \cup {Append(s, x) : s \in shorter, x \in S}

Genders == {"M", "F"}
TopNs == {1, 2, DefaultTopN}

\* The worked examples of the specification
ExM(n, team, class, totalTime) ==
    Racer(<<"X">>, <<n>>, team, "M", class, totalTime - 30, 30, totalTime, FALSE, FALSE)

\* times 61.00, 61.00, 62.00, 63.00 (listed unsorted) over a field of 4
TieExample ==
    << ExM("1", T_Brainerd, S_V, 62), ExM("2", T_Brainerd, S_V, 61),
       ExM("3", T_Annandale, S_V, 63), ExM("4", T_Brainerd, S_JV, 61) >>

\* 10 racers of gender M, 6 of them from allow-listed teams
AllowListExample ==
    << ExM("1", T_Edina, S_V, 58), ExM("2", T_Brainerd, S_V, 61),
       ExM("3", T_Annandale, S_V, 60), ExM("4", T_Edina, S_JV, 59),
       ExM("5", T_Brainerd, S_JV, 64), ExM("6", T_Brainerd, S_V, 61),
       ExM("7", T_Edina, S_V, 70), ExM("8", T_annandale, S_V, 66),
       [ExM("9", T_Brainerd, S_V, 57) EXCEPT !.dnf = TRUE],
       ExM("a", T_Edina, S_V, 62) >>

\* a team with 6 members that all score, and two racers of another team
TopNExample ==
    << ExM("1", T_Brainerd, S_V, 65), ExM("2", T_Edina, S_V, 60),
       ExM("3", T_Brainerd, S_V, 61), ExM("4", T_Brainerd, S_VM, 66),
       ExM("5", T_Brainerd, S_V, 62), ExM("6", T_Edina, S_V, 67),
       ExM("7", T_Brainerd, S_V, 63), ExM("8", T_Brainerd, S_V, 64) >>

\* racers of other teams, non-finishers and tied finishers, interleaved
BlocksExample ==
    << ExM("1", T_Edina, S_V, 58),
       [ExM("2", T_Brainerd, S_V, 57) EXCEPT !.dnf = TRUE],
       ExM("3", T_Brainerd, S_V, 62), ExM("4", T_Annandale, S_JV, 61),
       [ExM("5", T_Brainerd, S_JV, 60) EXCEPT !.totalTime = Null, !.run2 = Null],
       ExM("6", T_Brainerd, S_V, 61), ExM("7", T_Edina, S_JV, 59) >>

\* two teams with the same total, the second one entered by its number
NumberedTeamExample ==
    << ExM("1", T_Brainerd, S_V, 61), ExM("2", T_Seven, S_V, 61) >>

\* six racers of one gender with run 1 times ranked 1, 1, 3, 4, 4, 6, among
\* them a racer off the allow-list, a JV racer, a racer flagged DNF and one
\* flagged DSQ; one of them without a second run
RunRankExample ==
    << Racer(<<"X">>, <<"1">>, T_Brainerd,  "M", S_V,  33, 30, 63, FALSE, FALSE),
       Racer(<<"X">>, <<"2">>, T_Edina,     "M", S_V,  30, 32, 62, FALSE, FALSE),
       Racer(<<"X">>, <<"3">>, T_Brainerd,  "M", S_JV, 31, 30, 61, FALSE, FALSE),
       Racer(<<"X">>, <<"4">>, T_Annandale, "M", S_V,  30, Null, Null, TRUE, FALSE),
       Racer(<<"X">>, <<"5">>, T_Brainerd,  "M", S_V,  35, 31, 66, FALSE, FALSE),
       Racer(<<"X">>, <<"6">>, T_Annandale, "M", S_V,  33, 31, 64, FALSE, TRUE) >>

ExampleRaces ==
    {TieExample, AllowListExample, TopNExample, BlocksExample, NumberedTeamExample,
     RunRankExample}

Init ==
    /\ racers \in SeqsUpTo(RacerPool, MaxRacers) \cup ExampleRaces
    /\ ret = NoRet
    /\ events = <<>> /\ season = NoRet /\ arg = NoArg /\ res = <<>>

\* Whether an individual (resp. team) scoring call has written racers of
\* the gender before
DecoratedInd(rs, gender) ==
    \E i \in DOMAIN rs : rs[i].gender = gender /\ rs[i].fieldSize # Undef

DecoratedTeam(rs, gender) ==
    \E i \in DOMAIN rs : rs[i].gender = gender /\ rs[i].teamFieldSize # Undef

\* The call has written the caller's racer objects and returns r.results
IndividualReturns(r, gender, raceClass) ==
    /\ racers' = r.racers
    /\ ret' = [op |-> "individual", gender |-> gender, class |-> raceClass,
               topN |-> 0, shared |-> TRUE,
               again |-> DecoratedInd(racers, gender),
               racers |-> r.racers, results |-> r.results, standings |-> <<>>]
    /\ UNCHANGED <<events, season, arg, res>>

\* A call of calculateIndividualResults on the shared racer objects, as in
\* Views.renderRaceResults
IndividualShared(gender, raceClass) ==
    IndividualReturns(calculateIndividualResults(racers, gender, raceClass),
                      gender, raceClass)

\* The call has written copies: the caller's racer objects stay
FreshReturns(r, gender, raceClass) ==
    /\ ret' = [op |-> "individual", gender |-> gender, class |-> raceClass,
               topN |-> 0, shared |-> FALSE, again |-> FALSE,
               racers |-> r.racers, results |-> r.results, standings |-> <<>>]
    /\ UNCHANGED <<racers, events, season, arg, res>>

\* The same call on fresh copies of the racers
IndividualFresh(gender, raceClass) ==
    FreshReturns(calculateIndividualResults(FreshAll(racers), gender, raceClass),
                 gender, raceClass)

\* The call has written the caller's racer objects and returns r.standings
TeamReturns(r, gender, raceClass, topN) ==
    /\ racers' = r.racers
    /\ ret' = [op |-> "team", gender |-> gender, class |-> raceClass,
               topN |-> topN, shared |-> TRUE,
               again |-> DecoratedTeam(racers, gender),
               racers |-> r.racers, results |-> <<>>, standings |-> r.standings]
    /\ UNCHANGED <<events, season, arg, res>>

\* A call of calculateTeamStandings on the shared racer objects
TeamShared(gender, raceClass, topN) ==
    TeamReturns(calculateTeamStandings(racers, gender, raceClass, topN),
                gender, raceClass, topN)

\* Individual scoring of a race, on the shared objects and on fresh copies
Next ==
    \/ \E g \in Genders, c \in ClassArgs : IndividualShared(g, c)
    \/ \E g \in Genders, c \in ClassArgs : IndividualFresh(g, c)

Spec == Init /\ [][Next]_vars

\* ---- properties of calculateIndividualResults

Idx(rs) == DOMAIN rs

\* The racers of the call's gender, those of them on an allow-listed team
\* (by the allow-list test itself, not its table), and the finishers of those
OfGender(rs, g) == {i \in Idx(rs) : rs[i].gender = g}
Eligible(rs, g) == {i \in OfGender(rs, g) : isScoringTeam(rs[i].team)}
EligibleFinishers(rs, g) ==
    {i \in Eligible(rs, g) : rs[i].totalTime # Null /\ ~rs[i].dnf /\ ~rs[i].dsq}

\* C1: after calculateIndividualResults, a racer of the gender has a non-null
\* place or non-zero points only if its team is on the allow-list, its
\* totalTime is non-null and it is neither dnf nor dsq; a racer flagged DNF or
\* DSQ has place = null and points = 0 even when totalTime holds a number.
C1_PlaceOnlyForScoringFinishers ==
    ret.op = "individual" =>
      \A i \in OfGender(ret.racers, ret.gender) :
        LET r == ret.racers[i]
        IN  /\ (r.place # Null \/ r.points # 0) =>
                  /\ isScoringTeam(r.team)
                  /\ r.totalTime # Null
                  /\ ~r.dnf /\ ~r.dsq
            /\ (r.dnf \/ r.dsq) => (r.place = Null /\ r.points = 0)

\* a racer flagged DNF whose totalTime holds a number was scored next to a
\* placed racer, and has no place and no points
C1_Witness ==
    /\ ret.op = "individual"
    /\ \E i, j \in OfGender(ret.racers, ret.gender) :
          /\ ret.racers[i].dnf /\ ret.racers[i].totalTime # Null
          /\ isScoringTeam(ret.racers[i].team)
          /\ ret.racers[i].place = Null /\ ret.racers[i].points = 0
          /\ ret.racers[j].place = 1 /\ ret.racers[j].points > 0

\* The eligible finishers of the returned list, in the order of the list
PlacedOf(results, rs, g) ==
    SelectSeq(results, LAMBDA i : i \in EligibleFinishers(rs, g))

\* C3: over the eligible finishers sorted ascending by totalTime, the first
\* gets place 1, a finisher whose totalTime equals its predecessor's gets the
\* predecessor's place and points, any other gets place = (0-based sorted
\* index) + 1 and points = getPointsForPlace(place, fieldSize).
C3_TiePlaces ==
    ret.op = "individual" =>
      LET rs == ret.racers
          fin == EligibleFinishers(rs, ret.gender)
          fs == Cardinality(Eligible(rs, ret.gender))
          sorted == PlacedOf(ret.results, rs, ret.gender)
      IN  /\ \A i \in fin :
                /\ rs[i].place =
                      1 + Cardinality({j \in fin : rs[j].totalTime < rs[i].totalTime})
                /\ rs[i].points = getPointsForPlace(rs[i].place, fs)
          /\ ret.class = NullStr =>
                /\ Range(sorted) = fin
                /\ \A p \in DOMAIN sorted :
                      LET r == rs[sorted[p]]
                      IN  IF p = 1 THEN r.place = 1
                          ELSE LET q == rs[sorted[p - 1]]
                               IN  /\ q.totalTime <= r.totalTime
                                   /\ IF q.totalTime = r.totalTime
                                      THEN r.place = q.place /\ r.points = q.points
                                      ELSE r.place = p

\* the worked example: times 62, 61, 63, 61 over a field of 4 got places
\* 3, 1, 4, 1 and points 2, 4, 1, 4
C3_Witness ==
    /\ ret.op = "individual" /\ ret.gender = "M" /\ Len(ret.racers) = 4
    /\ [i \in 1..4 |-> ret.racers[i].totalTime] = <<62, 61, 63, 61>>
    /\ [i \in 1..4 |-> ret.racers[i].place] = <<3, 1, 4, 1>>
    /\ [i \in 1..4 |-> ret.racers[i].points] = <<2, 4, 1, 4>>
    /\ \A i \in 1..4 : ret.racers[i].fieldSize = 4

\* The block of the returned list a racer belongs to: the placed finishers,
\* the allow-listed non-finishers, the racers of other teams
BlockOf(rs, g, i) ==
    IF i \in EligibleFinishers(rs, g) THEN 1
    ELSE IF i \in Eligible(rs, g) THEN 2 ELSE 3

\* C15: without a class filter the returned list holds every input racer of
\* the gender exactly once, in three consecutive blocks: the placed finishers
\* in non-decreasing place (tied finishers in their sorted order, which is
\* the input order), then the allow-listed non-finishers in input order,
\* then the racers of other teams in input order.
C15_ThreeBlocks ==
    (ret.op = "individual" /\ ret.class = NullStr) =>
      LET rs == ret.racers
          g == ret.gender
          out == ret.results
          block == Array([i \in DOMAIN rs |-> BlockOf(rs, g, i)])
      IN  /\ Range(out) = OfGender(rs, g)
          /\ \A p, q \in DOMAIN out : p # q => out[p] # out[q]
          /\ \A p, q \in DOMAIN out :
                p < q =>
                  /\ block[out[p]] <= block[out[q]]
                  /\ block[out[p]] = 1 => rs[out[p]].place # Null
                  /\ block[out[q]] > 1 => rs[out[q]].place = Null
                  /\ (block[out[p]] = 1 /\ block[out[q]] = 1) =>
                        /\ rs[out[p]].place <= rs[out[q]].place
                        /\ rs[out[p]].place = rs[out[q]].place => out[p] < out[q]
                  /\ (block[out[p]] = block[out[q]] /\ block[out[p]] > 1)
                        => out[p] < out[q]

\* a list with all three blocks, two tied finishers among them, whose input
\* had a racer of another team and a non-finisher before a finisher
C15_Witness ==
    /\ ret.op = "individual" /\ ret.class = NullStr
    /\ \E p, q, t \in DOMAIN ret.results :
          /\ p < q /\ q < t
          /\ BlockOf(ret.racers, ret.gender, ret.results[p]) = 1
          /\ BlockOf(ret.racers, ret.gender, ret.results[q]) = 2
          /\ BlockOf(ret.racers, ret.gender, ret.results[t]) = 3
          /\ ret.results[t] < ret.results[p] /\ ret.results[q] < ret.results[p]
    /\ \E p \in DOMAIN ret.results :
          /\ p > 1 /\ ret.racers[ret.results[p]].place # Null
          /\ ret.racers[ret.results[p]].place = ret.racers[ret.results[p - 1]].place

\* C16: the class filter of calculateIndividualResults is a display filter:
\* the result with class filter c is the result without a filter restricted,
\* in the same order, to the racers whose class matches c, and every racer
\* carries the same place, points, fieldSize and run ranks in both results.
C16_ClassFilterIsDisplayOnly ==
    (ret.op = "individual" /\ ret.class # NullStr) =>
      LET all == calculateIndividualResults(FreshAll(ret.racers), ret.gender, NullStr)
      IN  /\ ret.results =
                SelectSeq(all.results,
                          LAMBDA i : matchesClass(ret.racers[i].class, ret.class))
          /\ \A i \in OfGender(ret.racers, ret.gender) :
                /\ ret.racers[i].place = all.racers[i].place
                /\ ret.racers[i].points = all.racers[i].points
                /\ ret.racers[i].fieldSize = all.racers[i].fieldSize
                /\ ret.racers[i].run1Rank = all.racers[i].run1Rank
                /\ ret.racers[i].run2Rank = all.racers[i].run2Rank

\* the call with the Varsity filter hides a JV racer placed first, and shows
\* a racer whose place and points count the hidden racers
C16_Witness ==
    /\ ret.op = "individual" /\ ret.class = S_Varsity
    /\ \E i, j \in OfGender(ret.racers, ret.gender) :
          /\ i \notin Range(ret.results) /\ ret.racers[i].place = 1
          /\ j \in Range(ret.results) /\ ret.racers[j].place = 3
          /\ ret.racers[j].points = ret.racers[j].fieldSize - 2
          /\ ret.racers[j].fieldSize = Cardinality(Eligible(ret.racers, ret.gender))

\* The racers of the gender with a time for the run (1 or 2)
WithRun(rs, g, run) ==
    {i \in OfGender(rs, g) : (IF run = 1 THEN rs[i].run1 ELSE rs[i].run2) # Null}

RunOf(r, run) == IF run = 1 THEN r.run1 ELSE r.run2
RunRankOf(r, run) == IF run = 1 THEN r.run1Rank ELSE r.run2Rank
RunCountOf(r, run) == IF run = 1 THEN r.run1Count ELSE r.run2Count

\* C23: calculateRunRankings ranks run1 and, independently, run2 over all
\* racers of the gender with a time for that run, whatever their team, class
\* or dnf/dsq flag: the rank of a racer is 1 + the number of ranked racers
\* with a smaller time (first 1, a tie keeps the predecessor's rank, any
\* other gets its sorted index + 1), and run1Count and run2Count are the
\* numbers of racers ranked.
C23_RunRanks ==
    ret.op = "individual" =>
      \A run \in {1, 2} :
        LET rs == ret.racers
            ranked == WithRun(rs, ret.gender, run)
        IN  /\ \A i \in ranked :
                  RunRankOf(rs[i], run) =
                    1 + Cardinality({j \in ranked : RunOf(rs[j], run) < RunOf(rs[i], run)})
            /\ \A i \in OfGender(rs, ret.gender) :
                  RunCountOf(rs[i], run) = Cardinality(ranked)

\* the worked example: run 1 times 33, 30, 31, 30, 35, 33 of six racers get
\* the ranks 4, 1, 3, 1, 6, 4, a racer flagged DNF and one off the allow-list
\* sharing rank 1; five of the six have a second run
C23_Witness ==
    /\ ret.op = "individual" /\ ret.gender = "M" /\ Len(ret.racers) = 6
    /\ [i \in 1..6 |-> ret.racers[i].run1] = <<33, 30, 31, 30, 35, 33>>
    /\ [i \in 1..6 |-> ret.racers[i].run1Rank] = <<4, 1, 3, 1, 6, 4>>
    /\ ret.racers[4].dnf /\ ~isScoringTeam(ret.racers[2].team)
    /\ \A i \in 1..6 : ret.racers[i].run1Count = 6 /\ ret.racers[i].run2Count = 5

\* C4: the fieldSize attached to every returned racer is the number of input
\* racers of the gender whose team is on the allow-list, finishers or not;
\* racers of the gender from other teams do not change it and are all
\* returned (when no class filter hides them) with points = 0.
C4_AllowListFieldSize ==
    ret.op = "individual" =>
      LET rs == ret.racers
          g == ret.gender
      IN  /\ \A i \in Range(ret.results) :
                rs[i].fieldSize = Cardinality(Eligible(rs, g))
          /\ \A i \in OfGender(rs, g) \ Eligible(rs, g) : rs[i].points = 0
          /\ ret.class = NullStr =>
                /\ Range(ret.results) = OfGender(rs, g)
                /\ Len(ret.results) = Cardinality(OfGender(rs, g))

\* the worked example: 10 racers of gender M, 6 on allow-listed teams, all 10
\* returned with fieldSize 6, the other 4 with 0 points
C4_Witness ==
    /\ ret.op = "individual" /\ ret.gender = "M" /\ ret.class = NullStr
    /\ Len(ret.racers) = 10 /\ Len(ret.results) = 10
    /\ Cardinality(Eligible(ret.racers, "M")) = 6
    /\ \A i \in 1..10 : ret.racers[i].fieldSize = 6
    /\ Cardinality({i \in 1..10 : ~isScoringTeam(ret.racers[i].team)
                                   /\ ret.racers[i].points = 0}) = 4

\* What a call says about each racer it returned, and in which order
Assigned(rs, results) ==
    [p \in DOMAIN results |->
        [racer |-> results[p], place |-> rs[results[p]].place,
         points |-> rs[results[p]].points, fieldSize |-> rs[results[p]].fieldSize]]

\* C9: calculateIndividualResults is idempotent: a run on objects that
\* earlier runs (of either gender, with any class filter) have decorated
\* assigns every racer the same place, points and fieldSize, and returns the
\* racers in the same order, as the run on a fresh copy of the same data.
C9_Idempotent ==
    (ret.op = "individual" /\ ret.shared) =>
      LET fresh == calculateIndividualResults(FreshAll(racers), ret.gender, ret.class)
      IN  /\ ret.results = fresh.results
          /\ Assigned(ret.racers, ret.results) = Assigned(fresh.racers, fresh.results)
          /\ \A i \in OfGender(racers, ret.gender) :
                /\ ret.racers[i].place = fresh.racers[i].place
                /\ ret.racers[i].points = fresh.racers[i].points
                /\ ret.racers[i].fieldSize = fresh.racers[i].fieldSize

\* a run on objects that an earlier run for the same gender had decorated
\* placed two racers
C9_Witness ==
    /\ ret.op = "individual" /\ ret.shared
    /\ \E i, j \in OfGender(racers, ret.gender) :
          /\ i # j
          /\ ret.racers[i].place = 1 /\ ret.racers[j].place # Null
    /\ ret.again

\* Team scoring of a race, on the shared objects
NextTeam ==
    \E g \in Genders, c \in ClassArgs \ {NullStr}, n \in TopNs : TeamShared(g, c, n)

SpecTeam == Init /\ [][NextTeam]_vars

\* ---- properties of calculateTeamStandings

\* The sum of f over the set S
SumOver(S, f(_)) ==
    LET RECURSIVE Add(_)
        Add(T) == IF T = {} THEN 0
                  ELSE LET x == CHOOSE x \in T : TRUE IN f(x) + Add(T \ {x})
    IN  Add(S)

\* C7: each team's scoringRacers holds at most topN members, all with
\* teamPoints > 0, and they are the members with the largest teamPoints;
\* totalPoints is the sum of their teamPoints, so every further member
\* contributes 0 while still being listed in team.racers.
C7_TopNCap ==
    ret.op = "team" =>
      \A k \in DOMAIN ret.standings :
        LET t == ret.standings[k]
            rs == ret.racers
            roster == Range(t.scoringRacers)
            listed == Range(t.racers)
            pts(i) == rs[i].teamPoints
        IN  /\ Len(t.scoringRacers) <= ret.topN
            /\ Cardinality(roster) = Len(t.scoringRacers)
            /\ roster \subseteq listed
            /\ \A i \in roster : pts(i) > 0
            /\ \A i \in roster, j \in listed \ roster : pts(i) >= pts(j)
            /\ Len(t.scoringRacers) < ret.topN
                  => \A j \in listed \ roster : pts(j) = 0
            /\ t.totalPoints = SumOver(roster, pts)
            /\ listed = {i \in DOMAIN rs :
                            /\ rs[i].gender = ret.gender
                            /\ matchesClass(rs[i].class, ret.class)
                            /\ rs[i].team = t.name}

\* the worked example: a team with 6 members that all have points, scored
\* with topN = 4: four of them on the roster, their points the total, the
\* 5th and 6th listed with points that do not count
C7_Witness ==
    /\ ret.op = "team" /\ ret.topN = DefaultTopN
    /\ \E k \in DOMAIN ret.standings :
          LET t == ret.standings[k]
          IN  /\ Len(t.racers) = 6
              /\ \A p \in 1..6 : ret.racers[t.racers[p]].teamPoints > 0
              /\ Len(t.scoringRacers) = 4
              /\ t.totalPoints = 7 + 6 + 5 + 4

TeamPool(rs, g, c) ==
    {i \in DOMAIN rs : rs[i].gender = g /\ matchesClass(rs[i].class, c)}

TeamPoolFinishers(rs, g, c) ==
    {i \in TeamPool(rs, g, c) :
        rs[i].totalTime # Null /\ ~rs[i].dnf /\ ~rs[i].dsq}

\* C17: in calculateTeamStandings the field size is the number of all input
\* racers matching the gender and the class, non-finishers, racers without a
\* team and racers of teams off the allow-list included; every finisher of
\* them gets teamPlace by the tie-aware rank over all of their finishers and
\* teamPoints = getPointsForPlace(teamPlace, that field size), every
\* non-finisher teamPlace = null and teamPoints = 0; the allow-list has no
\* influence on team points.
C17_TeamFieldSize ==
    ret.op = "team" =>
      LET rs == ret.racers
          pool == TeamPool(rs, ret.gender, ret.class)
          fin == TeamPoolFinishers(rs, ret.gender, ret.class)
      IN  \A i \in pool :
            /\ rs[i].teamFieldSize = Cardinality(pool)
            /\ i \in fin =>
                  /\ rs[i].teamPlace =
                        1 + Cardinality({j \in fin : rs[j].totalTime < rs[i].totalTime})
                  /\ rs[i].teamPoints =
                        getPointsForPlace(rs[i].teamPlace, Cardinality(pool))
            /\ i \notin fin => rs[i].teamPlace = Null /\ rs[i].teamPoints = 0

\* a finisher of a team off the allow-list is placed first with the field
\* size as points, behind it a finisher of an allow-listed team, and the
\* field counts a non-finisher or a racer without a team
C17_Witness ==
    /\ ret.op = "team"
    /\ \E i, j, k \in TeamPool(ret.racers, ret.gender, ret.class) :
          /\ ~isScoringTeam(ret.racers[i].team) /\ Truthy(ret.racers[i].team)
          /\ ret.racers[i].teamPlace = 1
          /\ ret.racers[i].teamPoints = ret.racers[i].teamFieldSize
          /\ isScoringTeam(ret.racers[j].team) /\ ret.racers[j].teamPlace > 1
          /\ ret.racers[j].teamPoints > 0
          /\ k \notin TeamPoolFinishers(ret.racers, ret.gender, ret.class)
                \/ ~Truthy(ret.racers[k].team)
          /\ ret.racers[k].teamFieldSize = ret.racers[i].teamFieldSize

\* Racer i is met before racer j by the grouping traversal: the finishers
\* by ascending totalTime (equal times in input order), then the
\* non-finishers in input order
MetBefore(rs, fin, i, j) ==
    IF i \in fin /\ j \in fin
    THEN rs[i].totalTime < rs[j].totalTime
            \/ (rs[i].totalTime = rs[j].totalTime /\ i < j)
    ELSE IF i \in fin \/ j \in fin THEN i \in fin
    ELSE i < j

\* C18: calculateTeamStandings returns the teams in non-increasing order of
\* totalPoints with places 1, 2, ..., n in that order; teams with equal
\* totalPoints keep the order in which their first member was met by the
\* grouping traversal, for every team name.
C18_TeamOrder ==
    ret.op = "team" =>
      LET rs == ret.racers
          fin == TeamPoolFinishers(rs, ret.gender, ret.class)
          st == ret.standings
      IN  \A k \in DOMAIN st :
            /\ st[k].place = k
            /\ \A l \in DOMAIN st :
                  k < l =>
                    /\ st[k].totalPoints >= st[l].totalPoints
                    /\ st[k].totalPoints = st[l].totalPoints =>
                          \E a \in Range(st[k].racers) :
                            \A b \in Range(st[l].racers) : MetBefore(rs, fin, a, b)

\* ------------------------------------------------------------ the season

\* The dates of the events, newest first as groupRacesIntoEvents sorts them
EventDates == <<"2024-02-09", "2024-02-02", "2024-01-26", "2024-01-19",
                "2024-01-12", "2024-01-05">>

\* A racer of a race file: no run times kept apart, the total only
SRacer(first, last, team, gender, class, totalTime, dnf) ==
    Racer(<<first>>, <<last>>, team, gender, class, totalTime, Null, totalTime, dnf, FALSE)

Ann(t) == SRacer("A", "a", T_Brainerd, "M", S_V, t, FALSE)
Bob(t) == SRacer("B", "b", T_Annandale, "M", S_VM, t, FALSE)
Dan(t) == SRacer("D", "d", T_Edina, "M", S_V, t, FALSE)
Fay(t) == SRacer("F", "f", T_Annandale, "F", S_VF, t, FALSE)

\* One race file with the racers rs
OneFile(rs) == << [racers |-> rs] >>

\* The race files an event of the season may consist of: Ann and Bob each
\* absent or finishing with either time; a racer flagged DNF; a racer of a
\* team off the allow-list; girls only; and an event of two race files that
\* both list the same racer
RaceFilesPool ==
    { OneFile(a \o b) :
          a \in {<<>>, <<Ann(61)>>, <<Ann(62)>>},
          b \in {<<>>, <<Bob(61)>>, <<Bob(62)>>} }
    \cup
    { OneFile(<<SRacer("A", "a", T_Brainerd, "M", S_V, Null, TRUE), Bob(61)>>),
      OneFile(<<Dan(60), Ann(61), Bob(63)>>),
      OneFile(<<Fay(61)>>),
      << [racers |-> <<Ann(61), Bob(60)>>], [racers |-> <<Ann(61), Fay(62)>>] >> }

\* A season: events with the dates of EventDates, in order
SeasonOf(files) ==
    Array([e \in DOMAIN files |->
        [name |-> "Race", date |-> EventDates[e], races |-> files[e]]])

\* The worked example: five events, Ann in all five, Bob in four of them
FiveEventSeason ==
    SeasonOf(<< OneFile(<<Ann(61), Bob(62)>>), OneFile(<<Ann(62), Bob(61)>>),
                OneFile(<<Ann(61)>>), OneFile(<<Bob(60), Ann(61)>>),
                OneFile(<<Ann(61), Bob(61), Dan(60)>>) >>)

\* Two athletes of one team whose names hold an underscore: "A_b" "c" and
\* "A" "b_c", in one event and in two
NamedWithUnderscore(first, last, t) ==
    Racer(first, last, T_Brainerd, "M", S_V, t, Null, t, FALSE, FALSE)

UnderscoreSeason ==
    SeasonOf(<< OneFile(<<NamedWithUnderscore(<<"A","_","b">>, <<"c">>, 61), Bob(62)>>),
                OneFile(<<NamedWithUnderscore(<<"A">>, <<"b","_","c">>, 62),
                          NamedWithUnderscore(<<"A","_","b">>, <<"c">>, 63)>>) >>)

InitSeason ==
    /\ events \in {SeasonOf(files) : files \in SeqsUpTo(RaceFilesPool, MaxEvents)}
                    \cup {FiveEventSeason, UnderscoreSeason}
    /\ season = NoRet
    /\ racers = <<>> /\ ret = NoRet /\ arg = NoArg /\ res = <<>>

\* A call of calculateSeasonStandings, as in Views.renderSeasonStandings. It
\* reads events alone, which no action of this specification changes, so a
\* behaviour holds one call. perEvent keeps what events.forEach had at hand
\* in each round: the scored copies, individualResults and teamStandings
SeasonStandings(gender, raceClass) ==
    /\ season = NoRet
    /\ season' = [op |-> "season", gender |-> gender, class |-> raceClass,
                  perEvent |-> Array([e \in DOMAIN events |->
                                  scoreEvent(events[e], gender, raceClass)])]
                    @@ calculateSeasonStandings(events, gender, raceClass)
    /\ UNCHANGED <<racers, ret, events, arg, res>>

NextSeason == \E g \in Genders, c \in ClassArgs : SeasonStandings(g, c)

SpecSeason == InitSeason /\ [][NextSeason]_vars

\* ---- properties of calculateSeasonStandings

SeasonEntries == Range(season.teams) \cup Range(season.individuals)

PointsOf(results) == Array([p \in DOMAIN results |-> results[p].points])

MinOf(s) == CHOOSE x \in Range(s) : \A y \in Range(s) : x <= y

\* C5: for every team and individual entry, with n events in the season and
\* k event results of the entry: if n > 1 and k >= n, exactly one result with
\* the minimum points is dropped and totalPoints = (sum of the points) - (the
\* minimum); otherwise droppedResult is null and totalPoints is the sum. In a
\* season of one event nothing is dropped.
C5_DropRule ==
    season.op = "season" =>
      \A entry \in SeasonEntries :
        LET n == Len(events)
            k == Len(entry.eventResults)
            pts == PointsOf(entry.eventResults)
        IN  /\ entry.eventCount = k
            /\ IF n > 1 /\ k >= n
               THEN /\ Len(entry.droppedResult) = 1
                    /\ entry.droppedResult[1] \in Range(entry.eventResults)
                    /\ entry.droppedResult[1].points = MinOf(pts)
                    /\ Len(entry.countedResults) = k - 1
                    /\ entry.totalPoints = SumSeq(pts) - MinOf(pts)
               ELSE /\ entry.droppedResult = <<>>
                    /\ entry.countedResults # <<>>
                    /\ Len(entry.countedResults) = k
                    /\ entry.totalPoints = SumSeq(pts)
            /\ n = 1 => entry.droppedResult = <<>>

\* the worked example: of five events Ann has five results and her lowest is
\* dropped, Bob has four and nothing is dropped
C5_Witness ==
    /\ season.op = "season" /\ Len(events) = 5
    /\ \E a, b \in Range(season.individuals) :
          /\ Len(a.eventResults) = 5 /\ Len(a.droppedResult) = 1
          /\ a.totalPoints = SumSeq(PointsOf(a.eventResults))
                               - MinOf(PointsOf(a.eventResults))
          /\ MinOf(PointsOf(a.eventResults)) > 0
          /\ Len(b.eventResults) = 4 /\ b.droppedResult = <<>>
          /\ b.totalPoints = SumSeq(PointsOf(b.eventResults))

\* C6: an entry with a dropped result belongs to a season of more than one
\* event and has an event result for every event of the season; an entity
\* without a result for some event never has a result dropped.
C6_DropOnlyWhenInEveryEvent ==
    season.op = "season" =>
      \A entry \in SeasonEntries :
        entry.droppedResult # <<>> =>
          /\ Len(events) > 1
          /\ \A e \in DOMAIN events :
                \E p \in DOMAIN entry.eventResults :
                    entry.eventResults[p].eventDate = events[e].date

\* The places of a cohort are a dense rank by totalPoints
DenseByTotal(cohort) ==
    \A p \in DOMAIN cohort :
        /\ \A q \in DOMAIN cohort :
              cohort[p].totalPoints = cohort[q].totalPoints
                  => cohort[p].place = cohort[q].place
        /\ (p > 1 /\ cohort[p].totalPoints # cohort[p - 1].totalPoints)
              => cohort[p].place = p

\* C14: in the output of calculateSeasonStandings the place of an entry is a
\* dense rank by totalPoints across its cohort (teams, resp. individuals):
\* entries with equal totalPoints have the same place, and an entry whose
\* totalPoints differs from its predecessor's has its 1-based position as
\* place.
C14_SeasonPlaceDenseRank ==
    season.op = "season" =>
        DenseByTotal(season.teams) /\ DenseByTotal(season.individuals)

\* The number of event results of the entry for the event of the date
RowsFor(entry, date) ==
    Cardinality({p \in DOMAIN entry.eventResults :
                    entry.eventResults[p].eventDate = date})

\* The scoring appearances of the event: the positions of the combined racers
\* that are finishers of the gender on an allow-listed team and pass the
\* class filter of the call
ScoringAppearances(event, g, c) ==
    {i \in DOMAIN allRacersOf(event) :
        LET r == allRacersOf(event)[i]
        IN  /\ r.gender = g /\ isScoringTeam(r.team)
            /\ r.totalTime # Null /\ ~r.dnf /\ ~r.dsq
            /\ Truthy(c) => matchesClass(r.class, c)}

\* The appearance was accumulated under the key of the entry
IsOfEntry(r, entry) == individualKey(r) = individualKey(entry)

\* The names of the teams with a racer among the racers of the event that
\* calculateTeamStandings is called for: the gender and the class of the
\* call, Varsity when the call names no class
TeamsOfEvent(event, g, c) ==
    {allRacersOf(event)[i].team :
        i \in {j \in DOMAIN allRacersOf(event) :
                  LET r == allRacersOf(event)[j]
                  IN  /\ r.gender = g /\ Truthy(r.team)
                      /\ matchesClass(r.class, IF Truthy(c) THEN c ELSE S_Varsity)}}

\* C19: every event result of an individual entry has points > 0 and every
\* individual entry has at least one event result, one per scoring
\* appearance (appearances with 0 points add no row and create no entry);
\* every team with a named-team racer among the racers of the gender and
\* class of an event has exactly one event result for that event, also when
\* its total for the event is 0, and a team never has more event results
\* than the season has events.
C19_Accumulation ==
    season.op = "season" =>
      /\ \A entry \in Range(season.individuals) :
            /\ Len(entry.eventResults) >= 1
            /\ \A p \in DOMAIN entry.eventResults : entry.eventResults[p].points > 0
            /\ \A e \in DOMAIN events :
                  RowsFor(entry, events[e].date) =
                    Cardinality({i \in ScoringAppearances(events[e], season.gender,
                                                          season.class) :
                                    IsOfEntry(allRacersOf(events[e])[i], entry)})
      /\ \A e \in DOMAIN events :
            \A i \in ScoringAppearances(events[e], season.gender, season.class) :
              \E entry \in Range(season.individuals) :
                  IsOfEntry(allRacersOf(events[e])[i], entry)
      /\ \A e \in DOMAIN events :
            \A name \in TeamsOfEvent(events[e], season.gender, season.class) :
              \E t \in Range(season.teams) :
                  t.name = name /\ RowsFor(t, events[e].date) = 1
      /\ \A t \in Range(season.teams) :
            /\ Len(t.eventResults) <= Len(events)
            /\ \A e \in DOMAIN events :
                  RowsFor(t, events[e].date) =
                    IF t.name \in TeamsOfEvent(events[e], season.gender, season.class)
                    THEN 1 ELSE 0

\* a team with a result of 0 points for an event next to a team that scored,
\* and a racer of the event's gender that has no individual entry
C19_Witness ==
    /\ season.op = "season" /\ Len(events) = 2
    /\ \E t, u \in Range(season.teams) :
          /\ \E p \in DOMAIN t.eventResults : t.eventResults[p].points = 0
          /\ \E p \in DOMAIN u.eventResults : u.eventResults[p].points > 0
    /\ \E e \in DOMAIN events : \E i \in DOMAIN allRacersOf(events[e]) :
          /\ allRacersOf(events[e])[i].gender = season.gender
          /\ \A entry \in Range(season.individuals) :
                ~IsOfEntry(allRacersOf(events[e])[i], entry)
    /\ season.individuals # <<>>

\* The appearance and the entry agree in trimmed firstName, trimmed lastName
\* and trimmed team
SameAthlete(r, entry) ==
    /\ trim(r.firstName) = trim(entry.firstName)
    /\ trim(r.lastName) = trim(entry.lastName)
    /\ trim(r.team) = trim(entry.team)

\* C20: two scoring appearances are accumulated into the same individual
\* entry if and only if their trimmed firstName, trimmed lastName and trimmed
\* team are equal: every scoring appearance has exactly one entry of its
\* athlete, and the event results of an entry are those of the appearances of
\* its athlete, so that no two athletes that differ in one of the three are
\* merged.
C20_MergeByNameAndTeam ==
    season.op = "season" =>
      /\ \A e \in DOMAIN events :
            \A i \in ScoringAppearances(events[e], season.gender, season.class) :
              Cardinality({p \in DOMAIN season.individuals :
                  SameAthlete(allRacersOf(events[e])[i], season.individuals[p])}) = 1
      /\ \A entry \in Range(season.individuals) :
            \A e \in DOMAIN events :
              RowsFor(entry, events[e].date) =
                Cardinality({i \in ScoringAppearances(events[e], season.gender,
                                                      season.class) :
                                SameAthlete(allRacersOf(events[e])[i], entry)})

\* No racer of the event has the gender and passes the class filter of the
\* individual results (resp. is of the class of the team standings)
NoIndividualPool(event, g, c) ==
    \A i \in DOMAIN allRacersOf(event) :
        ~(allRacersOf(event)[i].gender = g
            /\ (Truthy(c) => matchesClass(allRacersOf(event)[i].class, c)))

NoTeamPool(event, g, c) ==
    \A i \in DOMAIN allRacersOf(event) :
        ~(allRacersOf(event)[i].gender = g
            /\ matchesClass(allRacersOf(event)[i].class,
                            IF Truthy(c) THEN c ELSE S_Varsity))

\* C24: when no racer matches the requested gender (and class), an empty
\* racer list or an empty list of events included, calculateIndividualResults
\* and calculateTeamStandings return an empty list and
\* calculateSeasonStandings returns empty teams and individuals.
C24_EmptyPools ==
    season.op = "season" =>
      /\ \A e \in DOMAIN events :
            /\ NoIndividualPool(events[e], season.gender, season.class)
                  => season.perEvent[e].individualResults = <<>>
            /\ NoTeamPool(events[e], season.gender, season.class)
                  => season.perEvent[e].teamStandings = <<>>
      /\ (\A e \in DOMAIN events :
              NoIndividualPool(events[e], season.gender, season.class))
            => season.individuals = <<>>
      /\ (\A e \in DOMAIN events :
              NoTeamPool(events[e], season.gender, season.class))
            => season.teams = <<>>
      /\ events = <<>> => season.eventCount = 0

\* a season of two events, one without racers and one with racers of the
\* other gender only, among them one off the allow-list: nothing returned
C24_Witness ==
    /\ season.op = "season" /\ Len(events) = 2
    /\ \E e \in DOMAIN events : allRacersOf(events[e]) = <<>>
    /\ \E e \in DOMAIN events : \E i \in DOMAIN allRacersOf(events[e]) :
          /\ allRacersOf(events[e])[i].gender # season.gender
          /\ ~isScoringTeam(allRacersOf(events[e])[i].team)
    /\ \A e \in DOMAIN events :
          NoIndividualPool(events[e], season.gender, season.class)
    /\ season.teams = <<>> /\ season.individuals = <<>>
    /\ \A e \in DOMAIN events :
          /\ season.perEvent[e].individualResults = <<>>
          /\ season.perEvent[e].teamStandings = <<>>

\* The entry has an event result of the event with the racer's place and
\* points
HasRowOf(entry, event, r) ==
    \E p \in DOMAIN entry.eventResults :
        /\ entry.eventResults[p].eventDate = event.date
        /\ entry.eventResults[p].place = r.place
        /\ entry.eventResults[p].points = r.points

\* C26: in the list returned by calculateIndividualResults every racer with
\* a place has 1 <= place <= fieldSize and 1 <= points <= fieldSize, so
\* points = 0 holds exactly for the racers without a place; hence the rule
\* "Skip non-scorers" of calculateSeasonStandings never discards the result
\* of a racer who was given a place.
C26_PlacedRacersHavePoints ==
    season.op = "season" =>
      \A e \in DOMAIN events :
        \A i \in Range(season.perEvent[e].individualResults) :
          LET r == season.perEvent[e].racers[i]
          IN  /\ r.place # Null =>
                    /\ 1 <= r.place /\ r.place <= r.fieldSize
                    /\ 1 <= r.points /\ r.points <= r.fieldSize
                    /\ \E entry \in Range(season.individuals) :
                          IsOfEntry(r, entry) /\ HasRowOf(entry, events[e], r)
              /\ r.points = 0 <=> r.place = Null

\* an event whose last placed racer has place = fieldSize and 1 point, kept
\* in the season, next to a racer without a place
C26_Witness ==
    /\ season.op = "season"
    /\ \E e \in DOMAIN events :
          \E i, j \in Range(season.perEvent[e].individualResults) :
            LET r == season.perEvent[e].racers[i]
                q == season.perEvent[e].racers[j]
            IN  /\ r.fieldSize >= 2 /\ r.place = r.fieldSize /\ r.points = 1
                /\ q.place = Null /\ q.points = 0
                /\ \E entry \in Range(season.individuals) :
                      IsOfEntry(r, entry) /\ HasRowOf(entry, events[e], r)

\* ------------------------------------------- getPointsForPlace on its own

InitPoints ==
    /\ arg \in [fn : {"getPointsForPlace"},
                place : (0 - 2)..(MaxFieldSize + 2),
                fieldSize : 0..MaxFieldSize]
    /\ res = <<>>
    /\ racers = <<>> /\ ret = NoRet /\ events = <<>> /\ season = NoRet

CallGetPointsForPlace ==
    /\ arg.fn = "getPointsForPlace"
    /\ res = <<>>
    /\ res' = <<getPointsForPlace(arg.place, arg.fieldSize)>>
    /\ UNCHANGED <<racers, ret, events, season, arg>>

NextPoints == CallGetPointsForPlace

SpecPoints == InitPoints /\ [][NextPoints]_vars

\* C2: for all integers place and fieldSize >= 0, getPointsForPlace returns
\* fieldSize - place + 1 when 1 <= place <= fieldSize and 0 otherwise.
C2_PointsFormula ==
    (arg.fn = "getPointsForPlace" /\ res # <<>>) =>
        /\ (1 <= arg.place /\ arg.place <= arg.fieldSize)
              => res[1] = arg.fieldSize - arg.place + 1
        /\ ~(1 <= arg.place /\ arg.place <= arg.fieldSize) => res[1] = 0
        /\ (arg.place = 1 /\ arg.fieldSize >= 1) => res[1] = arg.fieldSize
        /\ (arg.place = arg.fieldSize /\ arg.fieldSize >= 1) => res[1] = 1

\* place 1 of a field of 30 has been scored with 30 points
C2_Witness ==
    /\ arg.fn = "getPointsForPlace" /\ res # <<>>
    /\ arg.fieldSize = 30 /\ arg.place = 1 /\ res[1] = 30

\* C13: points by place follow the README scale, 1st place 100 points, 2nd
\* place 99, 3rd place 98 and so on (points = 101 - place), whatever the
\* number of starters.
C13_ReadmeScale ==
    (arg.fn = "getPointsForPlace" /\ res # <<>>
        /\ 1 <= arg.place /\ arg.place <= arg.fieldSize) =>
            res[1] = 101 - arg.place

\* ------------------------------------ matchesClass and getClassCategory

ClassAlphabet == {"V", "v", "J", "j", "M", "F", " "}

ClassCodes ==
    StringsUpTo(ClassAlphabet, MaxCodeLen) \cup
    { NullStr, S_VARSITY, S_Varsity, S_JVM, S_JVF,
      <<"j","v","m">>, <<"J","v","f"," ">>, <<" ","V","M"," ">>,
      <<"v","a","r","s","i","t","y">>, <<" ","V","a","r","s","i","t","y","\t">>,
      <<"V","A","R","S","I","T","Y","X">>, <<"J","V","X">>, <<"X">> }

ClassFilters ==
    { S_Varsity, <<" ","v","a","r","s","i","t","y">>, S_JV, <<"j","v"," ">>,
      S_VM, <<"x">> }

EmptyFcn == [x \in {} |-> TRUE]

InitClass ==
    /\ arg \in [fn : {"matchesClass"}, code : ClassCodes]
    /\ res = [matches |-> EmptyFcn, category |-> <<>>]
    /\ racers = <<>> /\ ret = NoRet /\ events = <<>> /\ season = NoRet

CallMatchesClass(f) ==
    /\ arg.fn = "matchesClass"
    /\ f \notin DOMAIN res.matches
    /\ res' = [res EXCEPT !.matches = @ @@ (f :> matchesClass(arg.code, f))]
    /\ UNCHANGED <<racers, ret, events, season, arg>>

CallGetClassCategory ==
    /\ arg.fn = "matchesClass"
    /\ res.category = <<>>
    /\ res' = [res EXCEPT !.category = <<getClassCategory(arg.code)>>]
    /\ UNCHANGED <<racers, ret, events, season, arg>>

NextClass ==
    \/ \E f \in ClassFilters : CallMatchesClass(f)
    \/ CallGetClassCategory

SpecClass == InitClass /\ [][NextClass]_vars

Normalized(s) == trim(toUpperCase(s))

VarsityCodes == {S_V, S_VM, S_VF, S_VARSITY}
JVCodes == {S_JV, S_JVM, S_JVF}

\* C10: with codes normalised by upper-casing and trimming, matchesClass(code,
\* 'Varsity') is true exactly for V, VM, VF, VARSITY, matchesClass(code, 'JV')
\* exactly for JV, JVM, JVF, no code matches both, any other filter matches
\* only on equality of the normalised strings, and getClassCategory returns
\* 'Varsity' (resp. 'JV') exactly when the Varsity (resp. JV) filter matches,
\* and null for every other code, a missing one included.
C10_ClassMatching ==
    arg.fn = "matchesClass" =>
      LET present == arg.code # NullStr /\ arg.code # <<>>
          m == res.matches
      IN
        /\ \A f \in DOMAIN m :
              m[f] = IF Normalized(f) = S_VARSITY
                       THEN present /\ Normalized(arg.code) \in VarsityCodes
                     ELSE IF Normalized(f) = S_JV
                       THEN present /\ Normalized(arg.code) \in JVCodes
                     ELSE present /\ Normalized(arg.code) = Normalized(f)
        /\ (S_Varsity \in DOMAIN m /\ S_JV \in DOMAIN m)
              => ~(m[S_Varsity] /\ m[S_JV])
        /\ (S_JV \in DOMAIN m /\ arg.code = S_V) => ~m[S_JV]
        /\ res.category # <<>> =>
              /\ res.category[1] \in {S_Varsity, S_JV, NullStr}
              /\ ~present => res.category[1] = NullStr
              /\ S_Varsity \in DOMAIN m
                    => (res.category[1] = S_Varsity <=> m[S_Varsity])
              /\ S_JV \in DOMAIN m
                    => (res.category[1] = S_JV <=> m[S_JV])

\* ' VM ' (blanks around it) has matched 'Varsity', not 'JV', and its
\* category is 'Varsity'
C10_Witness ==
    /\ arg.fn = "matchesClass"
    /\ arg.code = <<" ","V","M"," ">>
    /\ S_Varsity \in DOMAIN res.matches /\ res.matches[S_Varsity]
    /\ S_JV \in DOMAIN res.matches /\ ~res.matches[S_JV]
    /\ res.category = <<S_Varsity>>

\* --------------------------------------------------- parsing of the times

\* The number NaN (Null and Undef are the other two values that are no time)
NaN == -3

\* a + b and a * k of JavaScript numbers, NaN being contagious
NumPlus(a, b) == IF a = NaN \/ b = NaN THEN NaN ELSE a + b
NumTimes(a, k) == IF a = NaN THEN NaN ELSE a * k

\* String.prototype.split(sep) for a one-character separator
RECURSIVE split(_, _)
split(s, sep) ==
    IF \A i \in DOMAIN s : s[i] # sep THEN <<s>>
    ELSE LET k == CHOOSE i \in DOMAIN s :
                      s[i] = sep /\ \A j \in 1..(i - 1) : s[j] # sep
         IN  <<SubSeq(s, 1, k - 1)>> \o split(SubSeq(s, k + 1, Len(s)), sep)

\* The string without its leading white space, as parseInt and parseFloat
\* read it
RECURSIVE TrimStart(_)
TrimStart(s) ==
    IF s # <<>> /\ s[1] \in WhiteSpace THEN TrimStart(Tail(s)) ELSE s

\* The longest prefix of s made of decimal digits
RECURSIVE DigitsPrefix(_)
DigitsPrefix(s) ==
    IF s = <<>> \/ ~IsDigit(s[1]) THEN <<>>
    ELSE <<s[1]>> \o DigitsPrefix(Tail(s))

\* parseInt(s) for strings without a sign or a 0x prefix: the number of the
\* leading digits, NaN when there is none
parseInt(s) ==
    LET d == DigitsPrefix(TrimStart(s))
    IN  IF d = <<>> THEN NaN ELSE NumVal(d)

\* The fraction digits fp as thousandths, rounded as Math.round does in the
\* end
FracMs(fp) ==
    LET d(i) == IF i <= Len(fp) THEN DigitVal(fp[i]) ELSE 0
    IN  100 * d(1) + 10 * d(2) + d(3) + (IF d(4) >= 5 THEN 1 ELSE 0)

\* The digits of a decimal literal: the integer digits ip and what follows
parseFloatDigits(ip, rest) ==
    LET fp == IF rest # <<>> /\ rest[1] = "." THEN DigitsPrefix(Tail(rest))
              ELSE <<>>
    IN  IF ip = <<>> /\ fp = <<>> THEN NaN
        ELSE NumVal(ip) * 1000 + FracMs(fp)

\* Math.round(parseFloat(s) * 1000) for strings without a sign, an exponent
\* or Infinity: the longest decimal prefix, NaN when there is none
parseFloatMs(s) ==
    parseFloatDigits(DigitsPrefix(TrimStart(s)),
        SubSeq(TrimStart(s), Len(DigitsPrefix(TrimStart(s))) + 1,
               Len(TrimStart(s))))

S_DNF == <<"D","N","F">>
S_DNS == <<"D","N","S">>
S_DSQ == <<"D","S","Q">>
S_DQ == <<"D","Q">>

\* The sum of the parts of a time string, in milliseconds; more than three
\* parts leave totalMs = 0
parseTimeParts(parts) ==
    IF Len(parts) = 1 THEN parseFloatMs(parts[1])
    ELSE IF Len(parts) = 2
    THEN NumPlus(NumTimes(parseInt(parts[1]), 60 * 1000), parseFloatMs(parts[2]))
    ELSE IF Len(parts) = 3
    THEN NumPlus(NumPlus(NumTimes(parseInt(parts[1]), 3600 * 1000),
                         NumTimes(parseInt(parts[2]), 60 * 1000)),
                 parseFloatMs(parts[3]))
    ELSE 0

parseTime(timeStr) ==
    IF ~Truthy(timeStr) \/ timeStr \in {S_DNF, S_DNS, S_DSQ, S_DQ} THEN Null
    ELSE parseTimeParts(split(trim(timeStr), ":"))

\* checkStatus without the check of the status code (a variant)
checkStatusTokenOnly(timeStr, statusCode) ==
    IF timeStr = S_DNF \/ timeStr = S_DNS THEN "DNF"
    ELSE IF timeStr = S_DSQ \/ timeStr = S_DQ THEN "DSQ"
    ELSE "OK"

checkStatus(timeStr, statusCode) ==
    IF timeStr = S_DNF \/ timeStr = S_DNS THEN "DNF"
    ELSE IF timeStr = S_DSQ \/ timeStr = S_DQ THEN "DSQ"
    ELSE IF statusCode = <<"2">> THEN "DNF"
    ELSE IF statusCode = <<"3">> THEN "DSQ"
    ELSE "OK"

\* One round of times.forEach: the flags, then run1 or run2 by the slot (the
\* course number of a dual-course race, else the position of the entry)
timeAssign(acc, timeVal, timeStatus, slot) ==
    [run1 |-> IF slot = 0 THEN timeVal ELSE acc.run1,
     run2 |-> IF slot = 1 THEN timeVal ELSE acc.run2,
     dnf |-> acc.dnf \/ timeStatus = "DNF",
     dsq |-> acc.dsq \/ (timeStatus # "DNF" /\ timeStatus = "DSQ"),
     status |-> IF timeStatus = "DNF" THEN "DNF"
                ELSE IF timeStatus = "DSQ" THEN "DSQ" ELSE acc.status]

timeStep(acc, t, raceType) ==
    timeAssign(acc, parseTime(t.time), checkStatus(t.time, t.status),
               IF raceType = 1 THEN parseInt(t.course) ELSE t.runIndex)

\* times.forEach over the first k entries
RECURSIVE timesLoop(_, _, _)
timesLoop(times, raceType, k) ==
    IF k = 0
    THEN [run1 |-> Null, run2 |-> Null, dnf |-> FALSE, dsq |-> FALSE,
          status |-> "OK"]
    ELSE timeStep(timesLoop(times, raceType, k - 1), times[k], raceType)

\* "Calculate total time" with a missing run counted as 0 (a variant)
withTotalTimeAnyRun(acc) ==
    [totalTime |-> IF ~acc.dnf /\ ~acc.dsq /\ (acc.run1 # Null \/ acc.run2 # Null)
                   THEN NumPlus(OrZero(acc.run1), OrZero(acc.run2))
                   ELSE Null] @@ acc

\* "Calculate total time"
withTotalTime(acc) ==
    [totalTime |-> IF ~acc.dnf /\ ~acc.dsq /\ acc.run1 # Null
                   THEN IF acc.run2 # Null THEN NumPlus(acc.run1, acc.run2)
                        ELSE acc.run1
                   ELSE Null] @@ acc

processRacerTimes(times, raceType) ==
    withTotalTime(timesLoop(times, raceType, Len(times)))


\* the most colon-separated parts of a time token
MaxParts == 4

\* What stands between the colons of a time token: nothing, digits, a
\* decimal number, text, digits followed by text
PartPool == { <<>>, <<"5">>, <<"1",".","5">>, <<"a">>, <<"5","a">> }

\* parts.join(':')
RECURSIVE Join(_)
Join(parts) ==
    IF Len(parts) = 1 THEN parts[1]
    ELSE Join(SubSeq(parts, 1, Len(parts) - 1)) \o <<":">> \o parts[Len(parts)]

\* The Result texts of a Time element: the strings of up to MaxParts parts
\* (the empty string among them) and the status words
TimeTokens ==
    {Join(ps) : ps \in SeqsUpTo(PartPool, MaxParts) \ {<<>>}} \cup {S_DNF, S_DQ}

\* The entry parseCompetitors pushes for the k-th Time element (k from 0),
\* here on course k
TimeEntry(k, time, status) ==
    [course |-> <<Digits[k + 1]>>, runIndex |-> k, time |-> time, status |-> status]

\* The times of a competitor: one Time element, or a second one with a
\* well-formed result
TimesPool ==
    { <<TimeEntry(0, tok, st)>> : tok \in TimeTokens, st \in {<<"1">>, <<"2">>, <<"3">>} }
    \cup
    { <<TimeEntry(0, tok, <<"1">>), TimeEntry(1, <<"3","1",".","5">>, <<"1">>)>> :
          tok \in TimeTokens }

InitParse ==
    /\ arg \in [fn : {"parseCompetitors"}, raceType : {0, 1}, times : TimesPool]
    /\ res = <<>>
    /\ racers = <<>> /\ ret = NoRet /\ events = <<>> /\ season = NoRet

\* The racer parseCompetitors pushes, with what processRacerTimes returned p
ParsedRacer(p) ==
    Racer(<<"P">>, <<"p">>, T_Brainerd, "M", S_V,
          p.run1, p.run2, p.totalTime, p.dnf, p.dsq)

\* parseCompetitors on a file with one competitor; res keeps what parseTime
\* made of the first Result text, and what processRacerTimes returned
ParseCompetitor ==
    /\ arg.fn = "parseCompetitors" /\ racers = <<>>
    /\ racers' = <<ParsedRacer(processRacerTimes(arg.times, arg.raceType))>>
    /\ res' = <<parseTime(arg.times[1].time),
                processRacerTimes(arg.times, arg.raceType)>>
    /\ UNCHANGED <<ret, events, season, arg>>

\* The race is rendered: individual scoring of the parsed racers
ScoreParsed ==
    /\ racers # <<>>
    /\ IndividualShared("M", NullStr)

NextParse == ParseCompetitor \/ ScoreParsed

SpecParse == InitParse /\ [][NextParse]_vars

\* ---- properties of parseTime and processRacerTimes

AllDigits(s) == s # <<>> /\ \A i \in DOMAIN s : IsDigit(s[i])

\* seconds: digits, optionally a point and digits
IsSeconds(s) ==
    \/ AllDigits(s)
    \/ \E k \in DOMAIN s :
          s[k] = "." /\ AllDigits(SubSeq(s, 1, k - 1))
                     /\ AllDigits(SubSeq(s, k + 1, Len(s)))

\* SS.ss / MM:SS.ss / HH:MM:SS.ss
InTimeGrammar(tok) ==
    LET parts == split(tok, ":")
    IN  /\ Len(parts) <= 3
        /\ \A k \in 1..(Len(parts) - 1) : AllDigits(parts[k])
        /\ IsSeconds(parts[Len(parts)])

fileAfterShared(fileRacers, scoredRacers) == scoredRacers

\* The racer objects of a race file after events.forEach has scored the
\* event: line 275 pushes copies ({...racer}) to allRacers, scoring writes to
\* the copies, and the objects of the file are not written
fileAfter(fileRacers, scoredRacers) == fileRacers

\* The number of racers in the race files before file k of the event
RECURSIVE racersBefore(_, _)
racersBefore(event, k) ==
    IF k <= 1 THEN 0
    ELSE racersBefore(event, k - 1) + Len(event.races[k - 1].racers)

\* The event after it was scored: allRacers holds the racers of file k at the
\* positions behind those of the files before it
eventAfter(event, scored) ==
    [event EXCEPT !.races =
        Array([k \in DOMAIN event.races |->
            [racers |->
                fileAfter(event.races[k].racers,
                    SubSeq(scored.racers, racersBefore(event, k) + 1,
                           racersBefore(event, k) + Len(event.races[k].racers)))]])]

\* The race files the seasons of repeated calls are made of
CallsFilesPool ==
    { OneFile(<<Ann(61), Bob(62)>>),
      OneFile(<<Ann(62)>>),
      OneFile(<<Dan(60), Ann(61), Bob(63)>>),
      OneFile(<<Fay(61), Bob(61)>>),
      << [racers |-> <<Ann(61), Bob(60)>>], [racers |-> <<Ann(61), Fay(62)>>] >> }

\* arg keeps the events as they were parsed
InitCalls ==
    /\ events \in {SeasonOf(files) : files \in SeqsUpTo(CallsFilesPool, MaxEvents)}
    /\ arg = [fn |-> "season", parsed |-> events]
    /\ season = NoRet
    /\ racers = <<>> /\ ret = NoRet /\ res = <<>>

\* What the call returned, and whether the call before it had other
\* arguments
SeasonReturns(r, gender, raceClass) ==
    season' = [op |-> "season", gender |-> gender, class |-> raceClass,
               changed |-> season.op = "season"
                             /\ (season.gender # gender \/ season.class # raceClass)]
                 @@ r

\* A call of calculateSeasonStandings on this.events, as renderSeasonStandings
\* makes it at every change of the filters
SeasonCall(gender, raceClass) ==
    /\ SeasonReturns(calculateSeasonStandings(events, gender, raceClass),
                     gender, raceClass)
    /\ events' = Array([e \in DOMAIN events |->
                    eventAfter(events[e], scoreEvent(events[e], gender, raceClass))])
    /\ UNCHANGED <<racers, ret, arg, res>>

NextCalls == \E g \in Genders, c \in ClassArgs : SeasonCall(g, c)

SpecCalls == InitCalls /\ [][NextCalls]_vars

RunTokens ==
    { <<>>, <<"3","1",".","5">>, <<"1",":","0","2",".","5">>,
      S_DNF, S_DNS, S_DSQ, S_DQ }

\* Status texts (1 = OK, 2 = DNF, 3 = DSQ) and Course texts
StatusCodes == { <<"1">>, <<"2">>, <<"3">> }
CourseTexts == { <<"0">>, <<"1">>, <<"2">> }

\* The entry parseCompetitors pushes for the k-th Time element (k from 0)
RunEntry(k, course, time, status) ==
    [course |-> course, runIndex |-> k, time |-> time, status |-> status]

\* The times of a competitor with one or two Time elements
RunsPool ==
    { <<RunEntry(0, c, tok, st)>> :
          c \in CourseTexts, tok \in RunTokens, st \in StatusCodes }
    \cup
    { <<RunEntry(0, c[1], tok[1], st[1]), RunEntry(1, c[2], tok[2], st[2])>> :
          c \in CourseTexts \X CourseTexts, tok \in RunTokens \X RunTokens,
          st \in StatusCodes \X StatusCodes }

InitRuns ==
    /\ arg \in [fn : {"parseCompetitors"}, raceType : {0, 1}, times : RunsPool]
    /\ res = <<>>
    /\ racers = <<>> /\ ret = NoRet /\ events = <<>> /\ season = NoRet

SpecRuns == InitRuns /\ [][NextParse]_vars

\* ---- properties of processRacerTimes

IsDnfToken(tok) == tok = S_DNF \/ tok = S_DNS
IsDsqToken(tok) == tok = S_DSQ \/ tok = S_DQ

\* The run an entry is stored as: its course number in a dual-course race,
\* else its position
SlotOf(t, raceType) == IF raceType = 1 THEN parseInt(t.course) ELSE t.runIndex

\* The entries stored as the run: the last one of them stays
EntriesOfRun(times, raceType, slot) ==
    {k \in DOMAIN times : SlotOf(times[k], raceType) = slot}

\* The value of the run: what parseTime makes of its last entry, null
\* without an entry
RunValue(times, raceType, slot) ==
    LET ks == EntriesOfRun(times, raceType, slot)
    IN  IF ks = {} THEN Null
        ELSE parseTime(times[CHOOSE k \in ks : \A j \in ks : j <= k].time)

\* status is 'OK' exactly when neither flag is set, 'DNF' only with dnf and
\* 'DSQ' only with dsq
StatusAgrees(p) ==
    /\ p.status = "OK" <=> (~p.dnf /\ ~p.dsq)
    /\ p.status = "DNF" => p.dnf
    /\ p.status = "DSQ" => p.dsq

\* C21 as stated: an entry with token DNF or DNS or status code 2 sets dnf,
\* an entry with token DSQ or DQ or status code 3 sets dsq, whatever the
\* token next to the status code; the parsed values are stored in run1 and
\* run2, and the status agrees with the flags.
C21_StatusFlags ==
    (arg.fn = "parseCompetitors" /\ Len(res) = 2) =>
      LET p == res[2]
          ts == arg.times
      IN  /\ (\E k \in DOMAIN ts : IsDnfToken(ts[k].time) \/ ts[k].status = <<"2">>)
                => p.dnf
          /\ (\E k \in DOMAIN ts : IsDsqToken(ts[k].time) \/ ts[k].status = <<"3">>)
                => p.dsq
          /\ p.run1 = RunValue(ts, arg.raceType, 0)
          /\ p.run2 = RunValue(ts, arg.raceType, 1)
          /\ StatusAgrees(p)

\* C21: in processRacerTimes (both layouts) an entry with token DNF or DNS,
\* or with status code 2 and a token other than DSQ and DQ, sets dnf; an
\* entry with token DSQ or DQ, or with status code 3 and a token other than
\* DNF and DNS, sets dsq; the status code classifies the racer also when the
\* token parses as a number, and the parsed value is still stored in run1 or
\* run2; the status is 'OK' exactly when neither flag is set, 'DNF' only
\* with dnf and 'DSQ' only with dsq.
C21_StatusFlagsTokenFirst ==
    (arg.fn = "parseCompetitors" /\ Len(res) = 2) =>
      LET p == res[2]
          ts == arg.times
      IN  /\ (\E k \in DOMAIN ts :
                  \/ IsDnfToken(ts[k].time)
                  \/ ts[k].status = <<"2">> /\ ~IsDsqToken(ts[k].time))
                => p.dnf
          /\ (\E k \in DOMAIN ts :
                  \/ IsDsqToken(ts[k].time)
                  \/ ts[k].status = <<"3">> /\ ~IsDnfToken(ts[k].time))
                => p.dsq
          /\ p.run1 = RunValue(ts, arg.raceType, 0)
          /\ p.run2 = RunValue(ts, arg.raceType, 1)
          /\ StatusAgrees(p)

\* a racer whose first run has a time and the status code 2, and whose
\* second run has a time: flagged dnf, both times stored, no total
C21_Witness ==
    /\ arg.fn = "parseCompetitors" /\ Len(res) = 2 /\ Len(arg.times) = 2
    /\ arg.times[1].time = <<"3","1",".","5">> /\ arg.times[1].status = <<"2">>
    /\ arg.times[2].status = <<"1">>
    /\ res[2].dnf /\ ~res[2].dsq /\ res[2].status = "DNF"
    /\ res[2].run1 = 31500 /\ res[2].run2 = 62500
    /\ res[2].totalTime = Null


\* The time of the last entry on the course, null without one
CourseValue(times, course) ==
    LET ks == {k \in DOMAIN times : times[k].course = course}
    IN  IF ks = {} THEN Null
        ELSE parseTime(times[CHOOSE k \in ks : \A j \in ks : j <= k].time)

\* run1 and run2 by the layout: the entries of course 0 and course 1 in a
\* dual-course race, else the first and the second entry
RunsByLayout(p, times, raceType) ==
    IF raceType = 1
    THEN /\ p.run1 = CourseValue(times, <<"0">>)
         /\ p.run2 = CourseValue(times, <<"1">>)
    ELSE /\ p.run1 = parseTime(times[1].time)
         /\ p.run2 = IF Len(times) >= 2 THEN parseTime(times[2].time) ELSE Null

\* C22 as stated: totalTime = run1 + run2 when both runs are non-null and
\* the racer is neither dnf nor dsq, totalTime = run1 when only run1 is
\* present, null otherwise; run1 and run2 by the layout.
C22_TotalTime ==
    (arg.fn = "parseCompetitors" /\ Len(res) = 2) =>
      LET p == res[2]
      IN  /\ p.totalTime =
                IF p.run1 # Null /\ p.run2 # Null /\ ~p.dnf /\ ~p.dsq
                THEN p.run1 + p.run2
                ELSE IF p.run1 # Null /\ p.run2 = Null THEN p.run1
                ELSE Null
          /\ RunsByLayout(p, arg.times, arg.raceType)

\* C22: processRacerTimes computes totalTime = run1 + run2 when both runs
\* are non-null and the racer is neither dnf nor dsq, totalTime = run1 when
\* only run1 is present and the racer is neither dnf nor dsq, and null
\* otherwise; a null run1 with a non-null run2 gives null. In a dual-course
\* race run1 is the entry of course 0 and run2 the entry of course 1, else
\* run1 is the first entry and run2 the second.
C22_TotalTimeOfFinishers ==
    (arg.fn = "parseCompetitors" /\ Len(res) = 2) =>
      LET p == res[2]
      IN  /\ p.totalTime =
                IF p.dnf \/ p.dsq \/ p.run1 = Null THEN Null
                ELSE IF p.run2 # Null THEN p.run1 + p.run2
                ELSE p.run1
          /\ (p.run1 = Null /\ p.run2 # Null) => p.totalTime = Null
          /\ RunsByLayout(p, arg.times, arg.raceType)

\* a dual-course racer whose Time elements come as course 1, then course 0:
\* run1 is the second element, and the total the sum
C22_Witness ==
    /\ arg.fn = "parseCompetitors" /\ Len(res) = 2 /\ Len(arg.times) = 2
    /\ arg.raceType = 1
    /\ arg.times[1].course = <<"1">> /\ arg.times[1].time = <<"3","1",".","5">>
    /\ arg.times[2].course = <<"0">> /\ arg.times[2].time = <<"1",":","0","2",".","5">>
    /\ ~res[2].dnf /\ ~res[2].dsq
    /\ res[2].run1 = 62500 /\ res[2].run2 = 31500
    /\ res[2].totalTime = 94000


\* ------------------------------------- isScoringTeam and racers by team

\* A race of two finishers of one gender and class: one of the team, one of
\* Brainerd
RaceOfTeam(team) ==
    << Racer(<<"T">>, <<"t">>, team, "M", S_V, 30, 31, 61, FALSE, FALSE),
       Racer(<<"A">>, <<"a">>, T_Brainerd, "M", S_V, 31, 31, 62, FALSE, FALSE) >>

InitAllowList ==
    /\ arg \in [fn : {"isScoringTeam"}, team : TeamInputs]
    /\ racers = RaceOfTeam(arg.team)
    /\ res = <<>>
    /\ ret = NoRet /\ events = <<>> /\ season = NoRet

CallIsScoringTeam ==
    /\ arg.fn = "isScoringTeam" /\ res = <<>>
    /\ res' = <<isScoringTeam(arg.team)>>
    /\ UNCHANGED <<racers, ret, events, season, arg>>

\* isScoringTeam on its own, and the individual and team scoring of a race
\* with a racer of the team
NextAllowList ==
    \/ CallIsScoringTeam
    \/ IndividualShared("M", NullStr)
    \/ TeamShared("M", S_Varsity, DefaultTopN)

SpecAllowList == InitAllowList /\ [][NextAllowList]_vars

\* ---- properties of isScoringTeam

\* A team string that is missing: null or undefined, empty, or blank
MissingTeam(team) ==
    team = NullStr \/ \A i \in DOMAIN team : team[i] \in WhiteSpace

\* Case-insensitively, the team string contains an allow-listed name or an
\* allow-listed name contains the team string
MatchesAllowList(team) ==
    \E k \in DOMAIN SCORING_TEAMS :
        \/ includes(toLowerCase(team), toLowerCase(SCORING_TEAMS[k]))
        \/ includes(toLowerCase(SCORING_TEAMS[k]), toLowerCase(team))

DivisionsExample ==
    << Racer(<<"D">>, <<"1">>, T_Brainerd,  "M", S_V,   30, 31, 61, FALSE, FALSE),
       Racer(<<"D">>, <<"2">>, T_Annandale, "M", S_VM,  31, 31, 62, FALSE, FALSE),
       Racer(<<"D">>, <<"3">>, T_Brainerd,  "M", S_JV,  32, 31, 63, FALSE, FALSE),
       Racer(<<"D">>, <<"4">>, T_Edina,     "M", S_V,   30, 30, 60, FALSE, FALSE),
       Racer(<<"D">>, <<"5">>, T_Brainerd,  "F", S_VF,  33, 31, 64, FALSE, FALSE),
       Racer(<<"D">>, <<"6">>, T_Annandale, "F", S_JVF, 34, 31, 65, FALSE, FALSE),
       Racer(<<"D">>, <<"7">>, T_Annandale, "F", S_JV,  35, Null, Null, TRUE, FALSE) >>

InitDivisions ==
    /\ racers \in ExampleRaces \cup {DivisionsExample}
    /\ ret = NoRet
    /\ events = <<>> /\ season = NoRet /\ arg = NoArg /\ res = <<>>

\* The individual and the team scoring of the four divisions (Boys and Girls,
\* Varsity and JV), in any order, on the racer objects of one race
NextDivisions ==
    \/ \E g \in Genders, c \in {S_Varsity, S_JV} : IndividualShared(g, c)
    \/ \E g \in Genders, c \in {S_Varsity, S_JV} : TeamShared(g, c, DefaultTopN)

SpecDivisions == InitDivisions /\ [][NextDivisions]_vars

\* ---- what the scoring calls write

\* The fields calculateIndividualResults (resp. calculateTeamStandings)
\* attaches
IndividualFields(r) ==
    <<r.place, r.points, r.fieldSize, r.run1Rank, r.run2Rank, r.run1Count, r.run2Count>>

TeamFields(r) == <<r.teamPlace, r.teamPoints, r.teamFieldSize, r.isScoring>>

\* A step of calculateIndividualResults: racers of another gender are not
\* written, the fields of the team scoring are not written, and what an
\* earlier individual scoring attached is intact
IndividualStepFrame ==
    ret'.op = "individual" =>
      \A i \in DOMAIN racers :
        /\ racers[i].gender # ret'.gender => racers'[i] = racers[i]
        /\ TeamFields(racers'[i]) = TeamFields(racers[i])
        /\ racers[i].fieldSize # Undef
              => IndividualFields(racers'[i]) = IndividualFields(racers[i])

\* A step of calculateTeamStandings: racers outside the gender and class are
\* not written, the fields of the individual scoring are not written, and
\* what an earlier team scoring attached is intact
TeamStepFrame ==
    ret'.op = "team" =>
      \A i \in DOMAIN racers :
        /\ ~(racers[i].gender = ret'.gender
               /\ matchesClass(racers[i].class, ret'.class))
              => racers'[i] = racers[i]
        /\ IndividualFields(racers'[i]) = IndividualFields(racers[i])
        /\ racers[i].teamFieldSize # Undef
              => TeamFields(racers'[i]) = TeamFields(racers[i])

\* C27: on shared racer objects calculateIndividualResults(racers, g, c)
\* writes no field of a racer whose gender is not g and never writes
\* teamPlace, teamPoints, teamFieldSize or isScoring; calculateTeamStandings
\* (racers, g, c) writes no field of a racer outside the gender g and class c
\* and never writes place, points, fieldSize, run1Rank, run2Rank, run1Count
\* or run2Count; so in any order of the individual and team scoring of the
\* four divisions the fields each call attached stay intact.
C27_CallsKeepAttachedFields == [][IndividualStepFrame /\ TeamStepFrame]_vars

\* all four divisions were scored, individually and as teams: the Varsity
\* and the JV boys carry different team field sizes next to the same
\* individual field size, and the girls carry theirs
C27_Witness ==
    /\ racers # <<>> /\ Len(racers) = 7
    /\ \A i \in DOMAIN racers :
          /\ racers[i].fieldSize # Undef
          /\ racers[i].teamFieldSize # Undef
    /\ racers[1].teamFieldSize = 3 /\ racers[3].teamFieldSize = 1
    /\ racers[1].fieldSize = 3 /\ racers[3].fieldSize = 3
    /\ racers[1].place = 1 /\ racers[1].teamPlace = 2
    /\ racers[5].fieldSize = 3 /\ racers[5].teamFieldSize = 1
    /\ racers[6].teamFieldSize = 2 /\ racers[7].teamPlace = Null

\* ---------------------------------------------------- the athlete search

\* `${racer.firstName}_${racer.lastName}_${racer.team}_${racer.gender}`
searchKey(r) ==
    r.firstName \o <<"_">> \o r.lastName \o <<"_">> \o Text(r.team)
        \o <<"_", r.gender>>

\* What results.forEach visits for one gender: a row per racer of the
\* results, in the order of the results
searchRowsOf(event, ind) ==
    Array([p \in DOMAIN ind.results |->
        [key |-> searchKey(ind.racers[ind.results[p]]),
         racer |-> ind.racers[ind.results[p]],
         eventName |-> event.name, eventDate |-> event.date,
         place |-> ind.racers[ind.results[p]].place,
         points |-> OrZero(ind.racers[ind.results[p]].points),
         totalTime |-> ind.racers[ind.results[p]].totalTime]])

\* ['M', 'F'].forEach for one event: the second call works on the copies
\* the first one left
searchRowsBoth(event, men) ==
    searchRowsOf(event, men)
        \o searchRowsOf(event, calculateIndividualResults(men.racers, "F", NullStr))

searchRows(event) ==
    searchRowsBoth(event,
        calculateIndividualResults(allRacersOf(event), "M", NullStr))

\* "Only add if not already added for this event": of the rows of one key,
\* the first of each event date
firstPerDate(mine) ==
    LET idx == Array([p \in DOMAIN mine |-> p])
        kept == SelectSeq(idx, LAMBDA p :
                    \A q \in 1..(p - 1) : mine[q].eventDate # mine[p].eventDate)
    IN  Array([k \in DOMAIN kept |-> mine[kept[k]]])

\* Object.values(allAthleteMap) after events.forEach: one athlete per key,
\* created from the first racer that had the key
allAthleteMapOf(rows) ==
    LET keys == ObjectKeys(Array([p \in DOMAIN rows |-> rows[p].key]))
    IN  Array([k \in DOMAIN keys |->
            LET mine == firstPerDate(rowsOfKey(rows, keys[k]))
            IN  [firstName |-> mine[1].racer.firstName,
                 lastName |-> mine[1].racer.lastName,
                 team |-> mine[1].racer.team,
                 gender |-> mine[1].racer.gender,
                 class |-> mine[1].racer.class,
                 eventResults |->
                    Array([p \in DOMAIN mine |->
                        [eventName |-> mine[p].eventName,
                         eventDate |-> mine[p].eventDate,
                         place |-> mine[p].place,
                         points |-> mine[p].points,
                         totalTime |-> mine[p].totalTime]])]])

\* "Mark the lowest scoring event as dropped": r.dropped is set on every
\* result when shouldDrop, and on none otherwise (undefined is falsy)
markDropped(athlete, totalEvents, sortedByPoints) ==
    LET drop == Len(sortedByPoints) >= totalEvents /\ totalEvents > 1
        droppedDate == sortedByPoints[Len(sortedByPoints)].eventDate
    IN  Array([p \in DOMAIN athlete.eventResults |->
            [dropped |-> drop /\ athlete.eventResults[p].eventDate = droppedDate]
                @@ athlete.eventResults[p]])

\* "Calculate total (excluding dropped)"
searchTotal(athlete, marked) ==
    [eventResults |-> marked,
     totalPoints |-> SumSeq(Array([p \in DOMAIN marked |->
                        IF marked[p].dropped THEN 0 ELSE marked[p].points]))]
        @@ athlete

withSearchTotal(athlete, totalEvents) ==
    searchTotal(athlete,
        markDropped(athlete, totalEvents,
            StableSort(athlete.eventResults, LAMBDA a, b : b.points - a.points)))

\* "Calculate season rank among ALL athletes of same gender": the group of
\* the athlete's gender in the order of allAthletes, sorted by totalPoints;
\* seasonRank is the athlete's index + 1 in it
searchRankOf(allAthletes, k) ==
    LET idx == Array([i \in DOMAIN allAthletes |-> i])
        group == SelectSeq(idx, LAMBDA i :
                     allAthletes[i].gender = allAthletes[k].gender)
        order == StableSort(group, LAMBDA i, j :
                     allAthletes[j].totalPoints - allAthletes[i].totalPoints)
    IN  CHOOSE p \in DOMAIN order : order[p] = k

withSeasonRank(allAthletes) ==
    Array([k \in DOMAIN allAthletes |->
        [seasonRank |-> searchRankOf(allAthletes, k)] @@ allAthletes[k]])

\* new Date(eventDate) as a number that grows with the date: EventDates
\* holds the dates newest first
DateValue(date) ==
    Len(EventDates) - (CHOOSE k \in DOMAIN EventDates : EventDates[k] = date)

\* The matching athletes: their eventResults sorted newest first, the
\* athletes sorted by totalPoints, the first ten returned
searchMatching(allAthletes, normalizedQuery) ==
    LET matching == SelectSeq(allAthletes, LAMBDA a :
                        includes(toLowerCase(a.firstName \o <<" ">> \o a.lastName),
                                 normalizedQuery))
        byDate == Array([k \in DOMAIN matching |->
                      [eventResults |->
                          StableSort(matching[k].eventResults, LAMBDA a, b :
                              DateValue(b.eventDate) - DateValue(a.eventDate))]
                        @@ matching[k]])
        sorted == StableSort(byDate, LAMBDA a, b : b.totalPoints - a.totalPoints)
    IN  SubSeq(sorted, 1, IF Len(sorted) < 10 THEN Len(sorted) ELSE 10)

searchRanked(evs, allAthleteMap, normalizedQuery) ==
    searchMatching(
        withSeasonRank(Array([k \in DOMAIN allAthleteMap |->
                           withSearchTotal(allAthleteMap[k], Len(evs))])),
        normalizedQuery)

\* App.searchAthletes(query) with this.events = evs
searchAthletes(evs, query) ==
    searchRanked(evs,
        allAthleteMapOf(Flatten(Array([e \in DOMAIN evs |-> searchRows(evs[e])]))),
        trim(toLowerCase(query)))

\* An athlete who does not finish the newest event and ties with Bob in the
\* other one, where Bob is listed first
SearchTieSeason ==
    SeasonOf(<< OneFile(<<SRacer("A", "a", T_Brainerd, "M", S_V, Null, TRUE)>>),
                OneFile(<<Bob(61), Ann(61)>>) >>)

\* The texts typed into the search box: one too short to search with, two
\* blanks (a search for every athlete), and two that name an athlete
Queries == {<<"A">>, <<" ", " ">>, <<"A", " ", "a">>, <<"b", " ">>}

InitSearch ==
    /\ events \in {SeasonOf(files) : files \in SeqsUpTo(RaceFilesPool, MaxEvents)}
                    \cup {FiveEventSeason, SearchTieSeason}
    /\ season = NoRet
    /\ racers = <<>> /\ ret = NoRet /\ arg = NoArg /\ res = <<>>

\* App.handleAthleteSearch(query): a query of fewer than two characters
\* clears the results; otherwise App.searchAthletes(query) reads
\* this.events, which it copies racer by racer, and its athletes are shown
SearchAthletes(query) ==
    /\ ret = NoRet
    /\ ret' = [op |-> "search", query |-> query,
               athletes |-> IF Len(query) < 2 THEN <<>>
                            ELSE searchAthletes(events, query)]
    /\ UNCHANGED <<racers, events, season, arg, res>>

\* The season standings of one gender shown next to the search, as in
\* Views.renderSeasonIndividualStandings
SeasonOfGender(gender) ==
    /\ season = NoRet
    /\ season' = [op |-> "season", gender |-> gender, class |-> NullStr]
                    @@ calculateSeasonStandings(events, gender, NullStr)
    /\ UNCHANGED <<racers, ret, events, arg, res>>

NextSearch ==
    \/ \E q \in Queries : SearchAthletes(q)
    \/ \E g \in Genders : SeasonOfGender(g)

SpecSearch == InitSearch /\ [][NextSearch]_vars

\* The entry of the standings for the athlete of the search
IsSameAthlete(entry, athlete) ==
    /\ entry.firstName = athlete.firstName /\ entry.lastName = athlete.lastName
    /\ entry.team = athlete.team /\ entry.gender = athlete.gender

\* C28: every athlete the search returns with a positive season total has
\* an entry in the individuals of the season standings of the athlete's
\* gender (no class filter), and seasonRank and totalPoints of the search
\* equal place and totalPoints of that entry.
C28_SearchAgreesWithSeason ==
    (ret.op = "search" /\ season.op = "season") =>
      \A k \in DOMAIN ret.athletes :
        (ret.athletes[k].totalPoints > 0 /\ ret.athletes[k].gender = season.gender) =>
          \E i \in DOMAIN season.individuals :
            /\ IsSameAthlete(season.individuals[i], ret.athletes[k])
            /\ season.individuals[i].place = ret.athletes[k].seasonRank
            /\ season.individuals[i].totalPoints = ret.athletes[k].totalPoints

\* ------------------------------------------------------- the event view

\* `${racer.bib}_${racer.firstName}_${racer.lastName}_${racer.team}`
eventRacerKey(r) ==
    r.bib \o <<"_">> \o r.firstName \o <<"_">> \o r.lastName \o <<"_">> \o Text(r.team)

\* Where the racer objects of the event are: <<race, position>>, in the
\* order of the two forEach loops
racerRefs(event) ==
    Flatten(Array([f \in DOMAIN event.races |->
        Array([p \in DOMAIN event.races[f].racers |-> <<f, p>>])]))

racerAt(event, ref) == event.races[ref[1]].racers[ref[2]]

\* The racer objects App.getEventRacers pushes: of each key the first
keptRefs(event, refs) ==
    LET idx == Array([i \in DOMAIN refs |-> i])
        kept == SelectSeq(idx, LAMBDA i :
                    \A j \in 1..(i - 1) :
                        eventRacerKey(racerAt(event, refs[j]))
                            # eventRacerKey(racerAt(event, refs[i])))
    IN  Array([k \in DOMAIN kept |-> refs[kept[k]]])

\* App.getEventRacers(event), as references to the racer objects
getEventRefs(event) == keptRefs(event, racerRefs(event))

getEventRacers(event) ==
    LET refs == getEventRefs(event)
    IN  Array([k \in DOMAIN refs |-> racerAt(event, refs[k])])

\* The event once the racer objects referred to hold the values of scored
eventShown(event, refs, scored) ==
    [races |->
        Array([f \in DOMAIN event.races |->
            [racers |->
                Array([p \in DOMAIN event.races[f].racers |->
                    IF \E k \in DOMAIN refs : refs[k] = <<f, p>>
                    THEN scored[CHOOSE k \in DOMAIN refs : refs[k] = <<f, p>>]
                    ELSE event.races[f].racers[p]])]
              @@ event.races[f]])]
      @@ event

\* Views.renderRaceResults: the rows of the results table (the team filter
\* applied), the teams of #team-filter (those of the unfiltered results) and
\* the racer objects as the two scoring calls left them
renderedRace(ind, team, teamFilter) ==
    [rows |-> LET shown == SelectSeq(ind.results, LAMBDA i :
                               Truthy(teamFilter) => ind.racers[i].team = teamFilter)
              IN  Array([k \in DOMAIN shown |-> ind.racers[shown[k]]]),
     teams |-> {ind.racers[ind.results[k]].team : k \in DOMAIN ind.results}
                  \ {NullStr, <<>>},
     racers |-> team.racers]

renderRaceTeams(ind, gender, effectiveClass, teamFilter) ==
    renderedRace(ind,
        calculateTeamStandings(ind.racers, gender, effectiveClass, DefaultTopN),
        teamFilter)

renderRaceResults(raceRacers, gender, raceClass, teamFilter) ==
    renderRaceTeams(calculateIndividualResults(raceRacers, gender, raceClass),
        gender, IF Truthy(raceClass) THEN raceClass ELSE S_Varsity, teamFilter)

\* A racer of a race file with its bib
Bibbed(bib, r) == [bib |-> <<bib>>] @@ r

\* The race files of an event: one file of Ann, Bob, Dan; a boys' file and a
\* girls' file; two files that both list Ann, under one bib and under two;
\* a file with a racer flagged DNF
ViewFilesPool ==
    { OneFile(<<Bibbed("1", Ann(61)), Bibbed("2", Bob(62))>>),
      OneFile(<<Bibbed("1", Ann(62)), Bibbed("2", Bob(61)), Bibbed("3", Dan(61))>>),
      OneFile(<<Bibbed("1", SRacer("A", "a", T_Brainerd, "M", S_V, Null, TRUE)),
                Bibbed("2", Bob(61))>>),
      << [racers |-> <<Bibbed("1", Ann(61)), Bibbed("2", Bob(60))>>],
         [racers |-> <<Bibbed("4", Fay(61))>>] >>,
      << [racers |-> <<Bibbed("1", Ann(61)), Bibbed("2", Bob(60))>>],
         [racers |-> <<Bibbed("1", Ann(61)), Bibbed("4", Fay(62))>>] >>,
      << [racers |-> <<Bibbed("1", Ann(61)), Bibbed("2", Bob(60))>>],
         [racers |-> <<Bibbed("5", Ann(63))>>] >> }

TeamFilters == {NullStr, T_Brainerd}

InitView ==
    /\ events \in {SeasonOf(files) : files \in SeqsUpTo(ViewFilesPool, MaxEvents)}
    /\ season = NoRet
    /\ racers = <<>> /\ ret = NoRet /\ arg = NoArg /\ res = <<>>

\* The event view holds the racer objects of this.events themselves
ShowEventRendered(index, gender, raceClass, refs, rendered) ==
    /\ ret' = [op |-> "event", index |-> index, gender |-> gender,
               class |-> raceClass, rows |-> rendered.rows]
    /\ events' = [events EXCEPT ![index] = eventShown(@, refs, rendered.racers)]

\* App.showEvent(index) under the filters of the moment
ShowEvent(index, gender, raceClass, teamFilter) ==
    /\ ret = NoRet
    /\ ShowEventRendered(index, gender, raceClass, getEventRefs(events[index]),
           renderRaceResults(getEventRacers(events[index]), gender, raceClass,
                             teamFilter))
    /\ UNCHANGED <<racers, season, arg, res>>

NextView ==
    \/ \E i \in DOMAIN events, g \in Genders, c \in ClassArgs, t \in TeamFilters :
          ShowEvent(i, g, c, t)
    \/ \E g \in Genders, c \in ClassArgs : SeasonStandings(g, c)

SpecView == InitView /\ [][NextView]_vars

\* C29: with the event view of an event and the season standings of the
\* same gender and class at hand, every result the season records for an
\* athlete at that event carries the place, points and fieldSize of a row
\* of the athlete in the event view (when the team filter shows the
\* athlete), and every row of the event view with points is recorded in
\* the season with the same place, points and fieldSize.
C29_EventViewAgreesWithSeason ==
    (ret.op = "event" /\ season.op = "season"
        /\ ret.gender = season.gender /\ ret.class = season.class) =>
      /\ \A i \in DOMAIN season.individuals :
           \A p \in DOMAIN season.individuals[i].eventResults :
             LET row == season.individuals[i].eventResults[p]
             IN  row.eventDate = events[ret.index].date =>
                   ((\E k \in DOMAIN ret.rows :
                        IsSameAthlete(season.individuals[i], ret.rows[k]))
                    => \E k \in DOMAIN ret.rows :
                         /\ IsSameAthlete(season.individuals[i], ret.rows[k])
                         /\ ret.rows[k].place = row.place
                         /\ ret.rows[k].points = row.points
                         /\ ret.rows[k].fieldSize = row.fieldSize)
      /\ \A k \in DOMAIN ret.rows :
           ret.rows[k].points > 0 =>
             \E i \in DOMAIN season.individuals :
               /\ IsSameAthlete(season.individuals[i], ret.rows[k])
               /\ \E p \in DOMAIN season.individuals[i].eventResults :
                    LET row == season.individuals[i].eventResults[p]
                    IN  /\ row.eventDate = events[ret.index].date
                        /\ row.place = ret.rows[k].place
                        /\ row.points = ret.rows[k].points
                        /\ row.fieldSize = ret.rows[k].fieldSize

\* --------------------------------------------------------------- the App

\* Math.ceil(n / d) for n >= 0 and d > 0
Ceil(n, d) == (n + d - 1) \div d

\* The decimal numeral of k, 0 <= k <= 99
Numeral(k) ==
    IF k < 10 THEN <<Digits[k + 1]>>
    ELSE <<Digits[(k \div 10) + 1], Digits[(k % 10) + 1]>>

\* the boys and the girls of the large event: two pages of 25 boys, one
\* page of girls
NumBoys == 27
NumGirls == 2

\* Racer k of the large event: the boys first, all Varsity
AppRacer(k) ==
    [bib |-> Numeral(k)] @@
    Racer(<<"X">>, Numeral(k),
          IF k <= NumBoys THEN T_Brainerd ELSE T_Annandale,
          IF k <= NumBoys THEN "M" ELSE "F",
          IF k <= NumBoys THEN S_V ELSE S_VF,
          Null, Null, 60 + k, FALSE, FALSE)

\* this.events as loadRaces leaves it: a season of one large event, and a
\* season without events
AppSeasons ==
    { SeasonOf(<< OneFile(Array([k \in 1..(NumBoys + NumGirls) |-> AppRacer(k)])) >>),
      <<>> }

\* The values of the options of #page-size-select
S_all == <<"a","l","l">>

PageSizeOptions ==
    {<<"2","5">>, <<"5","0">>, <<"1","0","0">>, <<"2","0","0">>, S_all}

\* Views.renderSeasonIndividualStandings(individuals, page, pageSize), as
\* what the container then holds: no controls without individuals;
\* otherwise the page buttons First, Prev, Next, Last with their data-page
\* and whether they are disabled
renderSeasonIndividualStandings(n, page, pageSize) ==
    IF n = 0
    THEN [individuals |-> 0, controls |-> FALSE, totalPages |-> 0,
          startIndex |-> 0, endIndex |-> 0, buttons |-> {}]
    ELSE LET totalPages == Ceil(n, pageSize)
             startIndex == (page - 1) * pageSize
         IN  [individuals |-> n, controls |-> TRUE, totalPages |-> totalPages,
              startIndex |-> startIndex,
              endIndex |-> IF startIndex + pageSize < n THEN startIndex + pageSize ELSE n,
              buttons |-> {[page |-> 1, disabled |-> page = 1],
                           [page |-> page - 1, disabled |-> page = 1],
                           [page |-> page + 1, disabled |-> page = totalPages],
                           [page |-> totalPages, disabled |-> page = totalPages]}]

\* Views.renderSeasonStandings(events, container, filters): the container
\* afterwards
renderSeasonStandings(evs, filters) ==
    [view |-> "standings", teams |-> {}] @@
    renderSeasonIndividualStandings(
        Len(calculateSeasonStandings(evs, filters.gender, filters.class).individuals),
        IF filters.page = 0 THEN 1 ELSE filters.page,
        IF filters.pageSize = 0 THEN 100 ELSE filters.pageSize)

\* Views.renderEventList: the event cards
renderEventList(evs) ==
    [view |-> "home", teams |-> {}] @@
    renderSeasonIndividualStandings(0, 1, 100)

\* The container after Views.renderRaceResults
renderedEvent(rendered) ==
    [view |-> "event", teams |-> rendered.teams] @@
    renderSeasonIndividualStandings(0, 1, 100)

\* The App object: currentView, currentEventIndex and filters
AppOf(view, index, filters) ==
    [fn |-> "app", currentView |-> view, currentEventIndex |-> index,
     filters |-> filters]

\* After App.init: the races are loaded and navigate('home') has run; arg
\* holds the App object, res what the container shows
InitApp ==
    /\ events \in AppSeasons
    /\ arg = AppOf("home", Null,
                   [gender |-> "M", class |-> NullStr, team |-> NullStr,
                    page |-> 1, pageSize |-> 100])
    /\ res = renderEventList(events)
    /\ racers = <<>> /\ ret = NoRet /\ season = NoRet

\* App.navigate(view) for the views of the nav links
navigate(view) ==
    /\ arg' = AppOf(view, Null, arg.filters)
    /\ res' = IF view = "standings" THEN renderSeasonStandings(events, arg.filters)
              ELSE renderEventList(events)
    /\ UNCHANGED <<racers, ret, events, season>>

\* App.showEvent(index) under filters: the event view scores the racer
\* objects of the event themselves
showEventRendered(index, filters, refs, rendered) ==
    /\ arg' = AppOf("event", index, filters)
    /\ res' = renderedEvent(rendered)
    /\ events' = [events EXCEPT ![index] = eventShown(@, refs, rendered.racers)]
    /\ UNCHANGED <<racers, ret, season>>

showEvent(index, filters) ==
    showEventRendered(index, filters, getEventRefs(events[index]),
        renderRaceResults(getEventRacers(events[index]), filters.gender,
                          filters.class, filters.team))

\* this.filters = filters, then App.refreshCurrentView()
refreshCurrentView(filters) ==
    IF arg.currentView = "event" /\ arg.currentEventIndex # Null
    THEN showEvent(arg.currentEventIndex, filters)
    ELSE /\ arg' = [arg EXCEPT !.filters = filters]
         /\ res' = IF arg.currentView = "standings"
                   THEN renderSeasonStandings(events, filters)
                   ELSE res
         /\ UNCHANGED <<racers, ret, events, season>>

\* A click on a nav link
NavClick(view) == navigate(view)

\* A click on an event card of the event list
EventCardClick(index) ==
    /\ res.view = "home"
    /\ showEvent(index, arg.filters)

\* A click on the back button of the event view
BackClick ==
    /\ res.view = "event"
    /\ navigate("home")

\* The gender tab that keeps the page (a variant)
genderTabKeepsPage(filters, gender) ==
    [filters EXCEPT !.gender = gender, !.team = NullStr]

\* The filters after a click on a gender tab
genderTabFilters(filters, gender) ==
    [filters EXCEPT !.gender = gender, !.page = 1, !.team = NullStr]

GenderTabClick(gender) ==
    /\ res.view \in {"event", "standings"}
    /\ refreshCurrentView(genderTabFilters(arg.filters, gender))

\* A click on a page button that is not disabled; data-page is a numeral
\* and parseInt gives its number back
PageBtnClick(button) ==
    /\ ~button.disabled
    /\ IF button.page # 0 /\ button.page > 0
       THEN refreshCurrentView([arg.filters EXCEPT !.page = button.page])
       ELSE UNCHANGED vars

\* A change of #class-filter to value ('' for All Classes)
ClassFilterChange(value) ==
    /\ res.view \in {"event", "standings"}
    /\ refreshCurrentView([arg.filters EXCEPT
           !.class = IF value = <<>> THEN NullStr ELSE value, !.page = 1])

\* A change of #team-filter to value ('' for All Teams)
TeamFilterChange(value) ==
    /\ res.view = "event"
    /\ refreshCurrentView([arg.filters EXCEPT
           !.team = IF value = <<>> THEN NullStr ELSE value])

\* A change of #page-size-select to the value of one of its options
PageSizeChange(value) ==
    /\ res.controls
    /\ refreshCurrentView([arg.filters EXCEPT
           !.pageSize = IF value = S_all THEN 10000 ELSE parseInt(value),
           !.page = 1])

\* The clicks and changes the listeners of setupNavigation handle. A click
\* on a tab button (App.switchTab) toggles CSS classes only and changes
\* nothing held here.
NextApp ==
    \/ \E view \in {"home", "standings"} : NavClick(view)
    \/ \E index \in DOMAIN events : EventCardClick(index)
    \/ BackClick
    \/ \E gender \in Genders : GenderTabClick(gender)
    \/ \E button \in res.buttons : PageBtnClick(button)
    \/ \E value \in {<<>>, S_Varsity, S_JV} : ClassFilterChange(value)
    \/ \E value \in res.teams \cup {<<>>} : TeamFilterChange(value)
    \/ \E value \in PageSizeOptions : PageSizeChange(value)

SpecApp == InitApp /\ [][NextApp]_vars

\* The page shown lies within the pages of the individuals rendered
PageInRange ==
    (res.view = "standings" /\ res.individuals >= 1) =>
      /\ arg.filters.page >= 1
      /\ (arg.filters.page - 1) * arg.filters.pageSize < res.individuals

\* A step that changes the gender, the class or the page size leaves the
\* page at 1, and one that changes the gender leaves no team filter
ResetsOnChange ==
    /\ (arg'.filters.gender # arg.filters.gender
          \/ arg'.filters.class # arg.filters.class
          \/ arg'.filters.pageSize # arg.filters.pageSize)
         => arg'.filters.page = 1
    /\ arg'.filters.gender # arg.filters.gender => arg'.filters.team = NullStr

\* C30: whenever the season individual standings are rendered with at least
\* one individual, 1 <= filters.page <= ceil(individuals / pageSize); every
\* change of gender, class or page size resets the page to 1, and a change
\* of gender also resets the team filter to null.
C30_PageWithinRange == []PageInRange /\ [][ResetsOnChange]_vars

\* The second page of 25 boys is shown after a click on Next or Last
C30_Witness ==
    /\ res.view = "standings" /\ res.totalPages = 2
    /\ arg.filters.page = 2 /\ arg.filters.pageSize = 25
    /\ arg.filters.gender = "M" /\ res.startIndex = 25
    /\ res.endIndex = res.individuals

====
